---- MODULE Spec2Model ----
(***************************************************************************)
(* Gaussian FCHK codec of IODATA (src/iodata/formats/fchk.py).             *)
(*                                                                         *)
(* Lines of the file are TLA+ strings; the Python string operations the    *)
(* reader uses (slicing at column 43, strip, split, int, float, fnmatch)   *)
(* are computed character by character.  A dict is a function whose        *)
(* DOMAIN is its key set.  A real number is the record [m, e] standing for *)
(* m * 10^e with m not divisible by 10 (0 is [m |-> 0, e |-> 0]).          *)
(***************************************************************************)
EXTENDS Integers, Sequences, FiniteSets, TLC

\* ------------------------------------------------------------------------
\* Python str primitives
\* ------------------------------------------------------------------------

Min(a, b) == IF a <= b THEN a ELSE b

Max(a, b) == IF a >= b THEN a ELSE b

\* s[i:j] for 0 <= i, 0 <= j (Python clamps both ends to len(s))
Slice(s, i, j) ==
    LET lo == Min(i, Len(s))
        hi == Min(j, Len(s))
    IN  IF lo >= hi THEN "" ELSE SubSeq(s, lo + 1, hi)

\* s[n:]
SliceFrom(s, n) == Slice(s, n, Len(s))

\* the whitespace of the model's alphabet: blank and tab (a line is held
\* without its newline, which strip() and split() drop anyway)
IsSpace(c) == c \in {" ", "\t"}

RECURSIVE lstrip(_)
lstrip(s) ==
    IF s = "" THEN ""
    ELSE IF IsSpace(Head(s)) THEN lstrip(Tail(s)) ELSE s

RECURSIVE rstrip(_)
rstrip(s) ==
    IF s = "" THEN ""
    ELSE IF IsSpace(SubSeq(s, Len(s), Len(s)))
         THEN rstrip(SubSeq(s, 1, Len(s) - 1))
         ELSE s

\* str.strip()
strip(s) == rstrip(lstrip(s))

\* length of the leading run of non-blank characters
RECURSIVE WordLen(_)
WordLen(s) ==
    IF s = "" \/ IsSpace(Head(s)) THEN 0 ELSE 1 + WordLen(Tail(s))

\* str.split(): the whitespace-separated words, in order
RECURSIVE split(_)
split(s) ==
    LET t == lstrip(s)
        n == WordLen(t)
    IN  IF t = "" THEN <<>>
        ELSE <<SubSeq(t, 1, n)>> \o split(SliceFrom(t, n))

Digits == <<"0", "1", "2", "3", "4", "5", "6", "7", "8", "9">>

IsDigit(c) == \E d \in 1..10 : Digits[d] = c

DigitVal(c) == (CHOOSE d \in 1..10 : Digits[d] = c) - 1

\* length of the leading run of decimal digits
RECURSIVE DigitsLen(_)
DigitsLen(s) ==
    IF s = "" \/ ~IsDigit(Head(s)) THEN 0 ELSE 1 + DigitsLen(Tail(s))

\* value of a string of decimal digits ("" is 0)
RECURSIVE DigitsVal(_)
DigitsVal(s) ==
    IF s = "" THEN 0
    ELSE 10 * DigitsVal(SubSeq(s, 1, Len(s) - 1))
         + DigitVal(SubSeq(s, Len(s), Len(s)))

\* an optional sign, split off: [sign, rest]
Signed(w) ==
    IF w # "" /\ Head(w) = "-" THEN [sign |-> -1, rest |-> Tail(w)]
    ELSE IF w # "" /\ Head(w) = "+" THEN [sign |-> 1, rest |-> Tail(w)]
    ELSE [sign |-> 1, rest |-> w]

\* int(word): [ok, val]; ok = FALSE stands for ValueError.  (Over the
\* model's alphabet: an optional sign and decimal digits.)
py_int(w) ==
    LET sg == Signed(w)
    IN  IF sg.rest # "" /\ DigitsLen(sg.rest) = Len(sg.rest)
        THEN [ok |-> TRUE, val |-> sg.sign * DigitsVal(sg.rest)]
        ELSE [ok |-> FALSE, val |-> 0]

\* m * 10^e with the trailing zeros of m moved into e
RECURSIVE Real(_, _)
Real(m, e) ==
    IF m = 0 THEN [m |-> 0, e |-> 0]
    ELSE IF m % 10 = 0 THEN Real(m \div 10, e + 1)
    ELSE [m |-> m, e |-> e]

\* s without its trailing characters c (str.rstrip(c))
RECURSIVE rstrip_char(_, _)
rstrip_char(s, c) ==
    IF s # "" /\ SubSeq(s, Len(s), Len(s)) = c
    THEN rstrip_char(SubSeq(s, 1, Len(s) - 1), c)
    ELSE s

\* float(word): [ok, val]; ok = FALSE stands for ValueError.  (Over the
\* model's alphabet: [sign] digits [. digits] [E|e [sign] digits], with at
\* least one digit in the mantissa.  The trailing zeros of the fraction
\* carry no value and are dropped before the digits are summed.)
py_float(w) ==
    LET sg   == Signed(w)
        ni   == DigitsLen(sg.rest)
        ip   == Slice(sg.rest, 0, ni)
        r1   == SliceFrom(sg.rest, ni)
        dot  == r1 # "" /\ Head(r1) = "."
        r2   == IF dot THEN Tail(r1) ELSE r1
        nf   == IF dot THEN DigitsLen(r2) ELSE 0
        fp   == rstrip_char(Slice(r2, 0, nf), "0")
        r3   == SliceFrom(r2, nf)
        hasE == r3 # "" /\ Head(r3) \in {"E", "e"}
        ex   == IF hasE THEN py_int(Tail(r3)) ELSE [ok |-> r3 = "", val |-> 0]
    IN  IF (ni + nf > 0) /\ ex.ok
        THEN [ok |-> TRUE,
              val |-> Real(sg.sign * DigitsVal(ip \o fp), ex.val - Len(fp))]
        ELSE [ok |-> FALSE, val |-> Real(0, 0)]

\* fnmatch(name, pat) on a POSIX system (case-sensitive); "*" matches any
\* run of characters and "?" any one character
RECURSIVE fnmatch(_, _)
fnmatch(name, pat) ==
    IF pat = "" THEN name = ""
    ELSE IF Head(pat) = "*"
         THEN fnmatch(name, Tail(pat))
              \/ (name # "" /\ fnmatch(Tail(name), pat))
    ELSE /\ name # ""
         /\ (Head(pat) = "?" \/ Head(pat) = Head(name))
         /\ fnmatch(Tail(name), Tail(pat))

\* ------------------------------------------------------------------------
\* State
\* ------------------------------------------------------------------------

VARIABLES
    lines,           \* the text lines behind the LineIterator `lit`
    pos,             \* number of lines `lit` has handed out
    entry,           \* the function the caller invoked
    label_patterns,  \* [isNone, list]: None, or the list of patterns
    pc,              \* where the call stands
    fchk,            \* the dict _load_fchk_low builds
    hdr,             \* number of the line the last pass examined as a field
                     \* header (0: none)
    cur,             \* label, length, counter of the array read in the last pass
    exc,             \* the exception that ended the call ("none": none)
    result,          \* the dict load_one builds
    ipoint,          \* load_many: the point the generator stands at
    istep,           \* load_many: the step of that point it stands at
    frames,          \* load_many: the dicts yielded so far
    call,            \* dump side: the functions called in turn, and the argument
    ret,             \* dump side: the values they returned so far
    obj,             \* IOData: the private attributes of the instance
    op,              \* IOData: the last access to an attribute and its outcome
    assigned         \* IOData: the attributes with a default that the caller
                     \* has assigned (history)

readerVars == <<lines, pos, entry, label_patterns, pc, fchk, hdr, cur, exc>>

manyVars == <<ipoint, istep, frames>>

dumpVars == <<call, ret>>

dataVars == <<obj, op, assigned>>

vars == <<readerVars, result, manyVars, dumpVars, dataVars>>

\* ------------------------------------------------------------------------
\* dicts and exceptions
\* ------------------------------------------------------------------------

EmptyDict == [k \in {} |-> 0]

\* d[k] = v
Put(d, k, v) == [x \in (DOMAIN d) \cup {k} |-> IF x = k THEN v ELSE d[x]]

\* d.pop(k) for a key that is present
Pop(d, k) == [x \in (DOMAIN d) \ {k} |-> d[x]]

NoExc == [kind |-> "none", msg |-> ""]

\* no call of the dump side is under way
NoCall == [fns |-> <<>>, arg |-> <<>>]

\* no attribute accessed yet
NoOp == [fn |-> "", name |-> ""]

\* lit.error(msg): the exception LineIterator.error raises
lit_error(msg) == [kind |-> "lit.error", msg |-> msg]

StopIteration == [kind |-> "StopIteration", msg |-> ""]

ValueError(msg) == [kind |-> "ValueError", msg |-> msg]

KeyError(key) == [kind |-> "KeyError", msg |-> key]

IndexError == [kind |-> "IndexError", msg |-> "pop from empty list"]

NoArray == [label |-> "", length |-> 0, counter |-> 0]

\* values of the dict: a str, a scalar of datatype int ("I") or float
\* ("R"), or a one-dimensional numpy array of that dtype
Str(s) == [kind |-> "str", dtype |-> "S", v |-> s]

Scalar(code, x) == [kind |-> "scalar", dtype |-> code, v |-> x]

Array(code, xs) == [kind |-> "array", dtype |-> code, v |-> xs]

\* ------------------------------------------------------------------------
\* _load_fchk_field
\* ------------------------------------------------------------------------

LabelWidth == 43

\* words[0] == 'I' or words[0] == 'R' (lines 363-368)
IsTypeCode(w) == w = "I" \/ w = "R"

\* datatype(word) for datatype int ("I") or float ("R")
datatype(code, word) == IF code = "I" THEN py_int(word) ELSE py_float(word)

\* np.zeros(length, datatype)
zeros(length, code) ==
    [i \in 1..length |-> IF code = "I" THEN 0 ELSE Real(0, 0)]

\* a faulty variant of the test below: only the first pattern is consulted
Wanted_first_pattern(label, pats) ==
    pats.isNone \/ (pats.list # <<>> /\ fnmatch(label, pats.list[1]))

\* label_patterns is None or any(fnmatch(label, p) for p in label_patterns)
Wanted(label, pats) ==
    pats.isNone \/ \E i \in 1..Len(pats.list) : fnmatch(label, pats.list[i])

Continue(p, h) ==
    [kind |-> "continue", pos |-> p, hdr |-> h, label |-> "", value |-> 0,
     cur |-> NoArray, exc |-> NoExc]

Return(p, h, label, value, c) ==
    [kind |-> "return", pos |-> p, hdr |-> h, label |-> label,
     value |-> value, cur |-> c, exc |-> NoExc]

Raise(p, h, e, c) ==
    [kind |-> "raise", pos |-> p, hdr |-> h, label |-> "", value |-> 0,
     cur |-> c, exc |-> e]

\* the loop "while counter < length" that fills an array (lines 384-393)
RECURSIVE ReadValues(_, _, _, _, _, _, _, _, _)
ReadValues(ls, p, h, label, code, length, counter, words, value) ==
    LET c == [label |-> label, length |-> length, counter |-> counter]
    IN
    IF counter >= length THEN Return(p, h, label, Array(code, value), c)
    ELSE IF words = <<>> /\ p >= Len(ls) THEN Raise(p, h, StopIteration, c)
    ELSE LET ws == IF words = <<>> THEN split(ls[p + 1]) ELSE words
             q  == IF words = <<>> THEN p + 1 ELSE p
         IN  IF ws = <<>> THEN Raise(q, h, IndexError, c)
             ELSE LET x == datatype(code, Head(ws))
                  IN  IF ~x.ok
                      THEN Raise(q, h,
                                 lit_error("Could not interpret: " \o Head(ws)),
                                 c)
                      ELSE ReadValues(ls, q, h, label, code, length,
                                      counter + 1, Tail(ws),
                                      [value EXCEPT ![counter + 1] = x.val])

\* one pass of the loop "while True" of _load_fchk_field with the cursor
\* at p: the next line is examined as a field header
_load_fchk_field(ls, p, pats) ==
    IF p >= Len(ls) THEN Raise(p, 0, StopIteration, NoArray)
    ELSE
    LET line  == ls[p + 1]
        h     == p + 1
        label == strip(Slice(line, 0, LabelWidth))
        words == split(SliceFrom(line, LabelWidth))
    IN
    IF words = <<>> THEN Continue(h, h)
    ELSE IF ~IsTypeCode(words[1]) THEN Continue(h, h)
    ELSE IF ~Wanted(label, pats) THEN Continue(h, h)
    ELSE IF Len(words) = 2 THEN
        LET x == datatype(words[1], words[2])
        IN  IF x.ok THEN Return(h, h, label, Scalar(words[1], x.val), NoArray)
            ELSE Raise(h, h, lit_error("Could not interpret: " \o words[2]),
                       NoArray)
    ELSE IF Len(words) = 3 THEN
        IF words[2] # "N=" THEN
            Raise(h, h, lit_error("Expected N= not found."), NoArray)
        ELSE
        LET n == py_int(words[3])
        IN  IF ~n.ok THEN Raise(h, h, ValueError("int"), NoArray)
            ELSE IF n.val < 0 THEN Raise(h, h, ValueError("zeros"), NoArray)
            ELSE ReadValues(ls, h, h, label, words[1], n.val, 0, <<>>,
                            zeros(n.val, words[1]))
    ELSE Continue(h, h)

\* ------------------------------------------------------------------------
\* _load_fchk_low
\* ------------------------------------------------------------------------

\* where control goes when _load_fchk_low returns
AfterLow ==
    IF entry = "load_one" THEN "A"
    ELSE IF entry = "load_many" THEN "M"
    ELSE "returned"

\* the two-line header (lines 315-324)
ReadHeader ==
    /\ pc = "start"
    /\ UNCHANGED <<lines, entry, label_patterns, hdr, cur, result>>
    /\ UNCHANGED <<manyVars, dumpVars, dataVars>>
    /\ IF Len(lines) < 2
       THEN /\ pos' = Len(lines)
            /\ pc' = "raised"
            /\ exc' = StopIteration
            /\ fchk' = fchk
       ELSE LET title == strip(lines[1])
                words == split(lines[2])
                r0    == Put(EmptyDict, "title", Str(title))
            IN  /\ pos' = 2
                /\ IF Len(words) = 3
                   THEN /\ fchk' = Put(Put(Put(r0, "command", Str(words[1])),
                                           "lot", Str(words[2])),
                                       "obasis_name", Str(words[3]))
                        /\ pc' = "loop"
                        /\ exc' = exc
                   ELSE IF Len(words) = 2
                   THEN /\ fchk' = Put(Put(r0, "command", Str(words[1])),
                                       "lot", Str(words[2]))
                        /\ pc' = "loop"
                        /\ exc' = exc
                   ELSE /\ fchk' = r0
                        /\ pc' = "raised"
                        /\ exc' = lit_error("The second line of the FCHK file should contain two or three words.")

\* a faulty variant of the loop exit below: the loop also ends as soon as
\* every requested pattern has matched a field
LoopEnds_when_matched(f, d, pats) ==
    \/ f.kind = "raise" /\ f.exc = StopIteration
    \/ /\ f.kind = "return"
       /\ ~pats.isNone
       /\ \A i \in 1..Len(pats.list) :
              \E k \in DOMAIN d : fnmatch(k, pats.list[i])

\* "except StopIteration: break": the field loop ends when the field reader
\* runs out of lines (f: the outcome of the pass, d: the dict so far)
LoopEnds(f, d, pats) == f.kind = "raise" /\ f.exc = StopIteration

\* one pass of the field loop (lines 326-333, with one pass of the loop of
\* _load_fchk_field inside it)
ReadField ==
    /\ pc = "loop"
    /\ UNCHANGED <<lines, entry, label_patterns, result>>
    /\ UNCHANGED <<manyVars, dumpVars, dataVars>>
    /\ \E f \in {_load_fchk_field(lines, pos, label_patterns)} :
           /\ pos' = f.pos
           /\ hdr' = f.hdr
           /\ cur' = f.cur
           /\ fchk' = IF f.kind = "return" THEN Put(fchk, f.label, f.value)
                      ELSE fchk
           /\ IF LoopEnds(f, fchk', label_patterns)
              THEN \* We always read until the end of the file.
                   pc' = AfterLow /\ exc' = exc
              ELSE IF f.kind = "raise"
              THEN pc' = "raised" /\ exc' = f.exc
              ELSE pc' = pc /\ exc' = exc

\* ------------------------------------------------------------------------
\* numpy and dict helpers of load_one
\* ------------------------------------------------------------------------

None == [kind |-> "None", dtype |-> "", v |-> 0]

\* x is None
IsNone(x) == x.kind = "None"

\* d.get(k, default)
Get(d, k, default) == IF k \in DOMAIN d THEN d[k] ELSE default

TypeError(msg) == [kind |-> "TypeError", msg |-> msg]

AttributeError(msg) == [kind |-> "AttributeError", msg |-> msg]

IndexErrorAt(msg) == [kind |-> "IndexError", msg |-> msg]

\* the outcome of a block of load_one: the exception it raised, or the value
Ok(x) == [exc |-> NoExc, val |-> x]

Fail(e) == [exc |-> e, val |-> None]

Upper == "ABCDEFGHIJKLMNOPQRSTUVWXYZ"

Lowercase == "abcdefghijklmnopqrstuvwxyz"

lower_char(c) ==
    IF \E i \in 1..26 : SubSeq(Upper, i, i) = c
    THEN LET i == CHOOSE j \in 1..26 : SubSeq(Upper, j, j) = c
         IN  SubSeq(Lowercase, i, i)
    ELSE c

\* str.lower()
RECURSIVE lower(_)
lower(s) == IF s = "" THEN "" ELSE lower_char(Head(s)) \o lower(Tail(s))

\* a two-dimensional array: its shape and its elements in row-major order
Array2(code, shape, xs) ==
    [kind |-> "array2", dtype |-> code, shape |-> shape, v |-> xs]

\* a.reshape(r, c) of a one-dimensional array (one of r, c may be -1)
reshape(a, r, c) ==
    LET n == Len(a.v)
    IN  IF a.kind # "array" THEN Fail(AttributeError("reshape"))
        ELSE IF r = -1 /\ c > 0 /\ n % c = 0
        THEN Ok(Array2(a.dtype, <<n \div c, c>>, a.v))
        ELSE IF c = -1 /\ r > 0 /\ n % r = 0
        THEN Ok(Array2(a.dtype, <<r, n \div r>>, a.v))
        ELSE IF r >= 0 /\ c >= 0 /\ r * c = n
        THEN Ok(Array2(a.dtype, <<r, c>>, a.v))
        ELSE Fail(ValueError("cannot reshape array"))

\* m.T
transpose(m) ==
    LET r == m.shape[1]
        c == m.shape[2]
    IN  Array2(m.dtype, <<c, r>>,
               [k \in 1..(r * c) |->
                   m.v[((k - 1) % r) * c + ((k - 1) \div r) + 1]])

\* np.concatenate((a, b), axis=1) of two-dimensional arrays
concatenate1(a, b) ==
    LET r  == a.shape[1]
        ca == a.shape[2]
        cb == b.shape[2]
    IN  IF b.shape[1] # r THEN Fail(ValueError("concatenate"))
        ELSE Ok(Array2(a.dtype, <<r, ca + cb>>,
                       [k \in 1..(r * (ca + cb)) |->
                           LET i == (k - 1) \div (ca + cb)
                               j == (k - 1) % (ca + cb)
                           IN  IF j < ca THEN a.v[i * ca + j + 1]
                               ELSE b.v[i * cb + (j - ca) + 1]]))

\* xs[lo:hi] of a sequence, for 0 <= lo
SeqSlice(xs, lo, hi) ==
    LET l == Min(lo, Len(xs))
        h == Min(hi, Len(xs))
    IN  IF l >= h THEN <<>> ELSE SubSeq(xs, l + 1, h)

\* xs[lo:hi] = x, for 0 <= lo (the slice is cut to the array's length)
SetSlice(xs, lo, hi, x) ==
    [i \in 1..Len(xs) |-> IF lo < i /\ i <= hi THEN x ELSE xs[i]]

\* the largest k with k * k <= n
isqrt(n) == CHOOSE k \in 0..n : k * k <= n /\ n < (k + 1) * (k + 1)

\* int(np.round((np.sqrt(1 + 8 * len(triangle)) - 1) / 2)): the integer
\* nearest to the root, which is the n with 4 n^2 <= 1 + 8 L < 4 (n + 1)^2
TriangleRows(L) == isqrt(1 + 8 * L) \div 2

\* _triangle_to_dense: row irow takes triangle[begin:begin + irow + 1]; numpy
\* stores a slice of the row's length, spreads a slice of one element over
\* the row, and refuses any other
_triangle_to_dense(triangle) ==
    LET t     == triangle.v
        nrow  == TriangleRows(Len(t))
        begin(irow) == (irow * (irow + 1)) \div 2
        piece(irow) == SeqSlice(t, begin(irow), begin(irow) + irow + 1)
        fits(irow)  == Len(piece(irow)) \in {1, irow + 1}
        at(irow, j) == IF Len(piece(irow)) = 1 THEN piece(irow)[1]
                       ELSE piece(irow)[j + 1]
    IN  IF \E irow \in 0..(nrow - 1) : ~fits(irow)
        THEN Fail(ValueError("could not broadcast"))
        ELSE Ok(Array2("R", <<nrow, nrow>>,
                       [k \in 1..(nrow * nrow) |->
                           LET i == (k - 1) \div nrow
                               j == (k - 1) % nrow
                           IN  IF j <= i THEN at(i, j) ELSE at(j, i)]))

\* _load_dm for each (label, key) of a list, in order
RECURSIVE _load_dm(_, _, _)
_load_dm(pairs, d, one_rdms) ==
    IF pairs = <<>> THEN Ok(one_rdms)
    ELSE LET label == Head(pairs)[1]
             key   == Head(pairs)[2]
         IN  IF label \in DOMAIN d
             THEN LET m == _triangle_to_dense(d[label])
                  IN  IF m.exc # NoExc THEN Fail(m.exc)
                      ELSE _load_dm(Tail(pairs), d, Put(one_rdms, key, m.val))
             ELSE _load_dm(Tail(pairs), d, one_rdms)

\* the calls of _load_dm in load_one (lines 163-168), in order
DensityLabels ==
    << <<"Total SCF Density", "scf">>, <<"Spin SCF Density", "scf_spin">>,
       <<"Total MP2 Density", "post_scf">>, <<"Spin MP2 Density", "post_scf_spin">>,
       <<"Total MP3 Density", "post_scf">>, <<"Spin MP3 Density", "post_scf_spin">>,
       <<"Total CC Density", "post_scf">>, <<"Spin CC Density", "post_scf_spin">>,
       <<"Total CI Density", "post_scf">>, <<"Spin CI Density", "post_scf_spin">> >>

\* the first key of keys that d lacks ("" when it has them all)
RECURSIVE FirstMissing(_, _)
FirstMissing(d, keys) ==
    IF keys = <<>> THEN ""
    ELSE IF Head(keys) \notin DOMAIN d THEN Head(keys)
    ELSE FirstMissing(d, Tail(keys))

\* ------------------------------------------------------------------------
\* load_one
\* ------------------------------------------------------------------------

\* the label patterns load_one asks for (lines 71-92)
LoadOnePatterns ==
    [isNone |-> FALSE,
     list |-> << "Number of electrons", "Number of basis functions",
                 "Number of independant functions",
                 "Number of independent functions",
                 "Number of alpha electrons", "Number of beta electrons",
                 "Atomic numbers", "Current cartesian coordinates",
                 "Real atomic weights",
                 "Shell types", "Shell to atom map", "Shell to atom map",
                 "Number of primitives per shell", "Primitive exponents",
                 "Contraction coefficients", "P(S=P) Contraction coefficients",
                 "Alpha Orbital Energies", "Alpha MO coefficients",
                 "Beta Orbital Energies", "Beta MO coefficients",
                 "Total Energy", "Nuclear charges",
                 "Total SCF Density", "Spin SCF Density",
                 "Total MP2 Density", "Spin MP2 Density",
                 "Total MP3 Density", "Spin MP3 Density",
                 "Total CC Density", "Spin CC Density",
                 "Total CI Density", "Spin CI Density",
                 "Mulliken Charges", "ESP Charges", "NPA Charges",
                 "Polarizability", "Dipole Moment", "Quadrupole Moment",
                 "Cartesian Gradient", "Cartesian Force Constants", "MicOpt" >>]

\* A) the simple things (lines 95-120)
run_types == [SP |-> "energy", FOpt |-> "opt", Scan |-> "scan", Freq |-> "freq"]

\* atmasses * amu: the product is kept as a term (amu is defined in utils)
times_amu(a) == [kind |-> "array", dtype |-> "R", v |-> a.v, unit |-> "amu"]

load_one_A(d) ==
    LET miss1 == FirstMissing(d, <<"title", "Total Energy", "lot", "obasis_name",
                                   "Current cartesian coordinates">>)
        co    == reshape(d["Current cartesian coordinates"], -1, 3)
        miss2 == FirstMissing(d, <<"Atomic numbers", "Nuclear charges">>)
        r0    == [k \in {"title", "energy", "lot", "obasis_name", "atcoords",
                         "atnums", "atcorenums"} |->
                    CASE k = "title"       -> d["title"]
                      [] k = "energy"      -> d["Total Energy"]
                      [] k = "lot"         -> Str(lower(d["lot"].v))
                      [] k = "obasis_name" -> Str(lower(d["obasis_name"].v))
                      [] k = "atcoords"    -> co.val
                      [] k = "atnums"      -> d["Atomic numbers"]
                      [] k = "atcorenums"  -> d["Nuclear charges"]]
        r1    == IF "Real atomic weights" \in DOMAIN d
                 THEN Put(r0, "atmasses", times_amu(d["Real atomic weights"]))
                 ELSE r0
        gr    == reshape(d["Cartesian Gradient"], -1, 3)
        r2    == IF "Cartesian Gradient" \in DOMAIN d
                 THEN Put(r1, "atgradient", gr.val) ELSE r1
        he    == _triangle_to_dense(d["Cartesian Force Constants"])
        r3    == IF "Cartesian Force Constants" \in DOMAIN d
                 THEN Put(r2, "athessian", he.val) ELSE r2
        mic   == d["MicOpt"]
        minus2 == IF mic.dtype = "I" THEN -2 ELSE Real(-2, 0)
        r4    == IF "MicOpt" \in DOMAIN d
                 THEN Put(r3, "atfrozen",
                          Array("B", [i \in 1..Len(mic.v) |-> mic.v[i] = minus2]))
                 ELSE r3
        cmd   == d["command"].v
        r5    == IF cmd \in DOMAIN run_types
                 THEN Put(r4, "run_type", Str(run_types[cmd])) ELSE r4
    IN  IF miss1 # "" THEN Fail(KeyError(miss1))
        ELSE IF co.exc # NoExc THEN Fail(co.exc)
        ELSE IF miss2 # "" THEN Fail(KeyError(miss2))
        ELSE IF "Cartesian Gradient" \in DOMAIN d /\ gr.exc # NoExc
        THEN Fail(gr.exc)
        ELSE IF "Cartesian Force Constants" \in DOMAIN d /\ he.exc # NoExc
        THEN Fail(he.exc)
        ELSE Ok(r5)

\* B) the orbital basis set (lines 123-159)

\* Shell(icenter, angmoms, kinds, exponents, coeffs)
Shell(icenter, angmoms, kinds, exponents, coeffs) ==
    [icenter |-> icenter, angmoms |-> angmoms, kinds |-> kinds,
     exponents |-> exponents, coeffs |-> coeffs]

abs(x) == IF x < 0 THEN -x ELSE x

\* the loop over the shells (lines 133-152), from shell i (0-based) on
RECURSIVE LoadShells(_, _, _, _, _, _, _, _, _)
LoadShells(i, counter, shells, shell_types, shell_map, nprims, exponents, ccoeffs_level1, ccoeffs_level2) ==
    IF i >= Len(nprims) THEN Ok(shells)
    ELSE IF i >= Len(shell_types) THEN Fail(IndexErrorAt("shell_types"))
    ELSE IF i >= Len(shell_map) THEN Fail(IndexErrorAt("shell_map"))
    ELSE
    LET n  == nprims[i + 1]
        st == shell_types[i + 1]
        ex == SeqSlice(exponents, counter, counter + n)
        c1 == SeqSlice(ccoeffs_level1, counter, counter + n)
        c2 == SeqSlice(ccoeffs_level2.v, counter, counter + n)
    IN  IF st = -1
        THEN IF IsNone(ccoeffs_level2)
             THEN Fail(TypeError("'NoneType' object is not subscriptable"))
             ELSE IF Len(c1) # Len(c2) THEN Fail(ValueError("stack"))
             ELSE LoadShells(i + 1, counter + n,
                      Append(shells,
                             Shell(shell_map[i + 1], <<0, 1>>, <<"c", "c">>, ex,
                                   [k \in 1..Len(c1) |-> <<c1[k], c2[k]>>])),
                      shell_types, shell_map, nprims, exponents,
                      ccoeffs_level1, ccoeffs_level2)
        ELSE LoadShells(i + 1, counter + n,
                      Append(shells,
                             Shell(shell_map[i + 1], <<abs(st)>>,
                                   <<IF st < 0 THEN "p" ELSE "c">>, ex,
                                   [k \in 1..Len(c1) |-> <<c1[k]>>])),
                      shell_types, shell_map, nprims, exponents,
                      ccoeffs_level1, ccoeffs_level2)

\* MolecularBasis(shells, CONVENTIONS, 'L2')
MolecularBasis(shells) ==
    [kind |-> "MolecularBasis", shells |-> shells, primitive_normalization |-> "L2"]

load_one_B(d) ==
    LET miss == FirstMissing(d, <<"Shell types", "Shell to atom map",
                                  "Number of primitives per shell",
                                  "Primitive exponents",
                                  "Contraction coefficients">>)
        map0 == d["Shell to atom map"].v
        sh   == LoadShells(0, 0, <<>>, d["Shell types"].v,
                           [k \in 1..Len(map0) |-> map0[k] - 1],
                           d["Number of primitives per shell"].v,
                           d["Primitive exponents"].v,
                           d["Contraction coefficients"].v,
                           Get(d, "P(S=P) Contraction coefficients", None))
    IN  IF miss # "" THEN Fail(KeyError(miss))
        ELSE IF sh.exc # NoExc THEN Fail(sh.exc)
        ELSE IF "Number of basis functions" \notin DOMAIN d
        THEN Fail(KeyError("Number of basis functions"))
        ELSE Ok(MolecularBasis(sh.val))

\* C) the density matrices (lines 162-170)
load_one_C(d) == _load_dm(DensityLabels, d, EmptyDict)

\* D) the wavefunction (lines 175-209)

\* fchk.get("Number of independant functions",
\*          fchk.get("Number of independent functions", nbasis))
nbasis_indep(d) ==
    Get(d, "Number of independant functions",
        Get(d, "Number of independent functions",
            d["Number of basis functions"])).v

\* a faulty variant of the checks below: a total of zero electrons passes
check_electrons_zero_total(nalpha, nbeta) ==
    IF nalpha < 0 \/ nbeta < 0 \/ nalpha + nbeta < 0
    THEN lit_error("The number of electrons is not positive.")
    ELSE IF nalpha < nbeta
    THEN ValueError("n_alpha < n_beta is not valid!")
    ELSE NoExc

\* the two checks of the electron counts (lines 181-184): the exception
\* raised, or NoExc
check_electrons(nalpha, nbeta) ==
    IF nalpha < 0 \/ nbeta < 0 \/ nalpha + nbeta <= 0
    THEN lit_error("The number of electrons is not positive.")
    ELSE IF nalpha < nbeta
    THEN ValueError("n_alpha < n_beta is not valid!")
    ELSE NoExc

load_one_D(d) ==
    LET miss == FirstMissing(d, <<"Number of alpha electrons",
                                  "Number of beta electrons">>)
    IN  IF miss # "" THEN KeyError(miss)
        ELSE check_electrons(d["Number of alpha electrons"].v,
                             d["Number of beta electrons"].v)

\* np.zeros(n) of floats
zeros_float(n) == [i \in 1..n |-> Real(0, 0)]

\* mo_occs of the unrestricted case (lines 196-198)
unrestricted_occs(nbi, nalpha, nbeta) ==
    SetSlice(SetSlice(zeros_float(2 * nbi), 0, nalpha, Real(1, 0)),
             nbi, nbi + nbeta, Real(1, 0))

\* a faulty variant of the restricted occupations below: the two slice
\* assignments in the other order
restricted_occs_swapped(nbi, nalpha, nbeta) ==
    SetSlice(SetSlice(zeros_float(nbi), 0, nbeta, Real(2, 0)),
             0, nalpha, Real(1, 0))

\* mo_occs of the restricted case (lines 202-204)
restricted_occs(nbi, nalpha, nbeta) ==
    SetSlice(SetSlice(zeros_float(nbi), 0, nalpha, Real(1, 0)),
             0, nbeta, Real(2, 0))

\* MolecularOrbitals(kind, norba, norbb, occs, coeffs, energies, irreps)
MolecularOrbitals(kind, norba, norbb, occs, coeffs, energies) ==
    [kind |-> kind, norba |-> norba, norbb |-> norbb, occs |-> occs,
     coeffs |-> coeffs, energies |-> energies, irreps |-> None]

\* a faulty variant of the deletion below: the density is kept
drop_scf_kept(res, nalpha, nbeta) == res

\* lines 205-207: "delete dm_full_scf because it is known to be buggy"
drop_scf(res, nalpha, nbeta) ==
    IF nalpha # nbeta
    THEN Put(res, "one_rdms", Pop(res["one_rdms"], "scf"))
    ELSE res

\* lines 186-209: the orbitals; res is the result dict built so far
load_one_MO(d, res) ==
    LET nbasis  == d["Number of basis functions"].v
        nbi     == nbasis_indep(d)
        nalpha  == d["Number of alpha electrons"].v
        nbeta   == d["Number of beta electrons"].v
        ea      == d["Alpha Orbital Energies"]
        ca      == reshape(d["Alpha MO coefficients"], nbi, nbasis)
        eb      == d["Beta Orbital Energies"]
        cb      == reshape(d["Beta MO coefficients"], nbi, nbasis)
        cab     == concatenate1(transpose(ca.val), transpose(cb.val))
        rdms    == res["one_rdms"]
    IN  IF "Alpha Orbital Energies" \notin DOMAIN d
        THEN Fail(KeyError("Alpha Orbital Energies"))
        ELSE IF "Alpha MO coefficients" \notin DOMAIN d
        THEN Fail(KeyError("Alpha MO coefficients"))
        ELSE IF ca.exc # NoExc THEN Fail(ca.exc)
        ELSE IF "Beta Orbital Energies" \in DOMAIN d
        THEN \* unrestricted
             IF "Beta MO coefficients" \notin DOMAIN d
             THEN Fail(KeyError("Beta MO coefficients"))
             ELSE IF cb.exc # NoExc THEN Fail(cb.exc)
             ELSE IF cab.exc # NoExc THEN Fail(cab.exc)
             ELSE IF nbi < 0 THEN Fail(ValueError("negative dimensions"))
             ELSE Ok(Put(res, "mo",
                         MolecularOrbitals("unrestricted", Len(ea.v), Len(eb.v),
                                           unrestricted_occs(nbi, nalpha, nbeta),
                                           cab.val, ea.v \o eb.v)))
        ELSE \* restricted closed-shell and open-shell
             IF nbi < 0 THEN Fail(ValueError("negative dimensions"))
             ELSE IF nalpha # nbeta /\ "one_rdms" \notin DOMAIN res
             THEN Fail(KeyError("one_rdms"))
             ELSE IF nalpha # nbeta /\ "scf" \notin DOMAIN rdms
             THEN Fail(KeyError("scf"))
             ELSE LET res1 == drop_scf(res, nalpha, nbeta)
                  IN  Ok(Put(res1, "mo",
                             MolecularOrbitals("restricted", Len(ea.v), Len(ea.v),
                                               restricted_occs(nbi, nalpha, nbeta),
                                               transpose(ca.val), ea.v)))

\* E) the properties (lines 212-232)

\* a[idx] for a list idx of 0-based indices
take(xs, idx) == [k \in 1..Len(idx) |-> xs[idx[k] + 1]]

\* a faulty variant of the index list below: that of the dump side
QuadrupoleOrder_as_dumped == <<0, 3, 5, 1, 2, 4>>

\* the index list applied to 'Quadrupole Moment' (line 219)
QuadrupoleOrder == <<0, 3, 4, 1, 5, 2>>

\* fchk['Quadrupole Moment'][[0, 3, 4, 1, 5, 2]] (line 219)
load_quadrupole(q) ==
    IF Len(q.v) < 6 THEN Fail(IndexErrorAt("index out of bounds"))
    ELSE Ok(Array(q.dtype, take(q.v, QuadrupoleOrder)))

load_one_E(d, res) ==
    LET po == _triangle_to_dense(d["Polarizability"])
        r1 == IF "Polarizability" \in DOMAIN d
              THEN Put(res, "extra", [polarizability_tensor |-> po.val])
              ELSE res
        m0 == EmptyDict
        m1 == IF "Dipole Moment" \in DOMAIN d
              THEN Put(m0, "1c", d["Dipole Moment"]) ELSE m0
        q  == d["Quadrupole Moment"]
        m2 == IF "Quadrupole Moment" \in DOMAIN d
              THEN Put(m1, "2c", load_quadrupole(q).val)
              ELSE m1
        r2 == IF DOMAIN m2 # {} THEN Put(r1, "moments", m2) ELSE r1
        c0 == EmptyDict
        c1 == IF "Mulliken Charges" \in DOMAIN d
              THEN Put(c0, "mulliken", d["Mulliken Charges"]) ELSE c0
        c2 == IF "ESP Charges" \in DOMAIN d
              THEN Put(c1, "esp", d["ESP Charges"]) ELSE c1
        c3 == IF "NPA Charges" \in DOMAIN d
              THEN Put(c2, "npa", d["NPA Charges"]) ELSE c2
        r3 == IF DOMAIN c3 # {} THEN Put(r2, "atcharges", c3) ELSE r2
    IN  IF "Polarizability" \in DOMAIN d /\ po.exc # NoExc THEN Fail(po.exc)
        ELSE IF "Quadrupole Moment" \in DOMAIN d /\ load_quadrupole(q).exc # NoExc
        THEN Fail(load_quadrupole(q).exc)
        ELSE Ok(r3)

\* the blocks of load_one as steps: each ends in the next block or in the
\* exception it raised
LoadSimple ==
    /\ pc = "A"
    /\ UNCHANGED <<lines, pos, entry, label_patterns, fchk, hdr, cur>>
    /\ UNCHANGED <<manyVars, dumpVars, dataVars>>
    /\ \E a \in {load_one_A(fchk)} :
           IF a.exc = NoExc
           THEN pc' = "B" /\ result' = a.val /\ exc' = exc
           ELSE pc' = "raised" /\ exc' = a.exc /\ result' = result

LoadBasis ==
    /\ pc = "B"
    /\ UNCHANGED <<lines, pos, entry, label_patterns, fchk, hdr, cur>>
    /\ UNCHANGED <<manyVars, dumpVars, dataVars>>
    /\ \E b \in {load_one_B(fchk)} :
           IF b.exc = NoExc
           THEN pc' = "C" /\ result' = Put(result, "obasis", b.val) /\ exc' = exc
           ELSE pc' = "raised" /\ exc' = b.exc /\ result' = result

LoadDensities ==
    /\ pc = "C"
    /\ UNCHANGED <<lines, pos, entry, label_patterns, fchk, hdr, cur>>
    /\ UNCHANGED <<manyVars, dumpVars, dataVars>>
    /\ \E c \in {load_one_C(fchk)} :
           IF c.exc # NoExc
           THEN pc' = "raised" /\ exc' = c.exc /\ result' = result
           ELSE /\ pc' = "D"
                /\ exc' = exc
                /\ result' = IF DOMAIN c.val # {}
                             THEN Put(result, "one_rdms", c.val)
                             ELSE result

LoadElectrons ==
    /\ pc = "D"
    /\ UNCHANGED <<lines, pos, entry, label_patterns, fchk, hdr, cur, result>>
    /\ UNCHANGED <<manyVars, dumpVars, dataVars>>
    /\ \E e \in {load_one_D(fchk)} :
           IF e = NoExc
           THEN pc' = "MO" /\ exc' = exc
           ELSE pc' = "raised" /\ exc' = e

LoadOrbitals ==
    /\ pc = "MO"
    /\ UNCHANGED <<lines, pos, entry, label_patterns, fchk, hdr, cur>>
    /\ UNCHANGED <<manyVars, dumpVars, dataVars>>
    /\ \E m \in {load_one_MO(fchk, result)} :
           IF m.exc = NoExc
           THEN pc' = "E" /\ result' = m.val /\ exc' = exc
           ELSE pc' = "raised" /\ exc' = m.exc /\ result' = result

LoadProperties ==
    /\ pc = "E"
    /\ UNCHANGED <<lines, pos, entry, label_patterns, fchk, hdr, cur>>
    /\ UNCHANGED <<manyVars, dumpVars, dataVars>>
    /\ \E e \in {load_one_E(fchk, result)} :
           IF e.exc = NoExc
           THEN pc' = "returned" /\ result' = e.val /\ exc' = exc
           ELSE pc' = "raised" /\ exc' = e.exc /\ result' = result

\* ------------------------------------------------------------------------
\* The dumpers of scalars and arrays (lines 444-486); each yields the lines
\* it prints
\* ------------------------------------------------------------------------

\* str(n) for n >= 0
RECURSIVE NatStr(_)
NatStr(n) ==
    IF n < 10 THEN Digits[n + 1] ELSE NatStr(n \div 10) \o Digits[(n % 10) + 1]

\* str(n) of an int
IntStr(n) == IF n < 0 THEN "-" \o NatStr(-n) ELSE NatStr(n)

\* s padded with blanks on the left to width n
RECURSIVE rjust(_, _)
rjust(s, n) == IF Len(s) >= n THEN s ELSE rjust(" " \o s, n)

\* s padded with blanks on the right to width n
RECURSIVE ljust(_, _)
ljust(s, n) == IF Len(s) >= n THEN s ELSE ljust(s \o " ", n)

\* x rounded to nine significant digits (a tenth digit of 5 alone goes to
\* the even neighbour), as [m, e] with m of at most ten digits
round9(x) ==
    LET a     == abs(x.m)
        extra == IF Len(NatStr(a)) > 9 THEN 1 ELSE 0
        q     == IF extra = 1 THEN a \div 10 ELSE a
        r     == IF extra = 1 THEN a % 10 ELSE 0
        up    == r > 5 \/ (r = 5 /\ q % 2 = 1)
    IN  [m |-> IF up THEN q + 1 ELSE q, e |-> x.e + extra]

\* "{: 16.8E}".format(x): sign or blank, one digit, the point, eight digits,
\* E, the sign of the exponent and at least two digits of it
fmt_16_8E(x) ==
    LET r  == round9(x)
        ds == NatStr(r.m)
        d9 == SubSeq(ds, 1, Min(Len(ds), 9))
        ex == IF r.m = 0 THEN 0 ELSE r.e + Len(ds) - 1
    IN  rjust((IF x.m < 0 THEN "-" ELSE " ")
              \o Head(d9) \o "." \o Tail(d9)
              \o SubSeq("00000000", 1, 8 - Len(Tail(d9)))
              \o "E" \o (IF ex < 0 THEN "-" ELSE "+")
              \o (IF abs(ex) < 10 THEN "0" ELSE "") \o NatStr(abs(ex)),
              16)

\* the body of an array: `wrap` values to a line, each formatted by its
\* dtype; i is the index of the next value, k the count on the open line
RECURSIVE DumpBody(_, _, _, _, _, _)
DumpBody(code, val, wrap, i, k, open) ==
    IF i >= Len(val) THEN <<>>
    ELSE LET text == open \o (IF code = "I" THEN rjust(IntStr(val[i + 1]), 12)
                              ELSE fmt_16_8E(val[i + 1]))
         IN  IF k + 1 = wrap \/ i = Len(val) - 1
             THEN <<text>> \o DumpBody(code, val, wrap, i + 1, 0, "")
             ELSE DumpBody(code, val, wrap, i + 1, k + 1, text)

\* val is None, or the scalar or array to write
_dump_integer_scalars(name, val) ==
    IF IsNone(val) THEN <<>>
    ELSE <<ljust(name, 40) \o "   I     " \o rjust(IntStr(val.v), 12)>>

_dump_real_scalars(name, val) ==
    IF IsNone(val) THEN <<>>
    ELSE <<ljust(name, 40) \o "   R     " \o fmt_16_8E(val.v)>>

_dump_integer_arrays(name, val) ==
    IF IsNone(val) THEN <<>>
    ELSE IF Len(val.v) = 0 THEN <<>>
    ELSE <<ljust(name, 40) \o "   I   N=" \o rjust(IntStr(Len(val.v)), 12)>>
         \o DumpBody("I", val.v, 6, 0, 0, "")

_dump_real_arrays(name, val) ==
    IF IsNone(val) THEN <<>>
    ELSE IF Len(val.v) = 0 THEN <<>>
    ELSE <<ljust(name, 40) \o "   R   N=" \o rjust(IntStr(Len(val.v)), 12)>>
         \o DumpBody("R", val.v, 5, 0, 0, "")

\* ------------------------------------------------------------------------
\* The helpers of dump_one that rearrange values
\* ------------------------------------------------------------------------

UnboundLocalError(name) == [kind |-> "UnboundLocalError", msg |-> name]

\* a faulty variant of the function below: the elements with j < i alone
_get_TriangleMat_below_diagonal(matrix) ==
    LET nrow    == matrix.shape[1]
        ncol    == matrix.shape[2]
        newsize == (nrow * (nrow + 1)) \div 2
        filled  == (nrow * (nrow - 1)) \div 2
        row(k)  == CHOOSE i \in 0..nrow :
                       (i * (i + 1)) \div 2 <= k /\ k < ((i + 1) * (i + 2)) \div 2
        col(k)  == k - (row(k) * (row(k) + 1)) \div 2
    IN  Ok(Array("R", [k \in 1..newsize |->
                          IF k <= filled
                          THEN matrix.v[(row(k - 1) + 1) * ncol + col(k - 1) + 1]
                          ELSE Real(0, 0)]))

\* _get_TriangleMat: the elements matrix[i][j] with j <= i, row after row
\* (a matrix with fewer columns than rows has no matrix[i][j] for some j <= i)
_get_TriangleMat(matrix) ==
    LET nrow    == matrix.shape[1]
        ncol    == matrix.shape[2]
        newsize == (nrow * (nrow + 1)) \div 2
        row(k)  == CHOOSE i \in 0..nrow :
                       (i * (i + 1)) \div 2 <= k /\ k < ((i + 1) * (i + 2)) \div 2
        col(k)  == k - (row(k) * (row(k) + 1)) \div 2
    IN  IF ncol < nrow THEN Fail(IndexErrorAt("index out of bounds"))
        ELSE Ok(Array("R", [k \in 1..newsize |->
                               matrix.v[row(k - 1) * ncol + col(k - 1) + 1]]))

\* a faulty variant of the indices below: those of the load side
SortOrder_as_loaded == <<0, 3, 4, 1, 5, 2>>

\* the indices _sort_quadrupole reads for newquadrupole[0..5] (lines 566-571)
SortOrder == <<0, 3, 5, 1, 2, 4>>

_sort_quadrupole(quadrupole) ==
    LET q == quadrupole.v
    IN  IF Len(q) # 0
        THEN IF Len(q) < 6 THEN Fail(IndexErrorAt("index out of bounds"))
             ELSE Ok(Array("R", [k \in 1..Len(q) |->
                                    IF k <= 6 THEN q[SortOrder[k] + 1]
                                    ELSE Real(0, 0)]))
        ELSE Ok(Array("R", <<>>))

\* coeffs.size of a shell: coeffs has a row for each primitive
CoeffsSize(coeffs) == IF coeffs = <<>> THEN 0 ELSE Len(coeffs) * Len(coeffs[1])

\* a faulty variant of the function below: the sign marks every pure shell
\* above s
_get_TypeShell_pure_p(shell) ==
    LET one == IF shell.kinds[1] = "p" /\ shell.angmoms[1] > 0
               THEN -shell.angmoms[1] ELSE shell.angmoms[1]
    IN  IF Len(shell.angmoms) = 1 THEN Ok(one)
        ELSE IF Len(shell.angmoms) = 2
                /\ 2 * Len(shell.exponents) = CoeffsSize(shell.coeffs)
        THEN Ok(-1)
        ELSE Fail(UnboundLocalError("kind"))

\* _get_TypeShell: 0=s, 1=p, -1=sp, 2=6d, -2=5d, 3=10f, -3=7f...
_get_TypeShell(shell) ==
    LET one == IF shell.kinds[1] = "p" /\ shell.angmoms[1] > 1
               THEN -shell.angmoms[1] ELSE shell.angmoms[1]
    IN  IF Len(shell.angmoms) = 1 THEN Ok(one)
        ELSE IF Len(shell.angmoms) = 2
                /\ 2 * Len(shell.exponents) = CoeffsSize(shell.coeffs)
        THEN Ok(-1)
        ELSE Fail(UnboundLocalError("kind"))

\* the rules of the loop over the shells (lines 133-152) for one shell of
\* type `code` with the centre and the primitives of the shell `like`, as
\* _dump_basisInfo writes them (lines 651-665, 693-694)
load_shell(code, like) ==
    LET n  == Len(like.exponents)
        c1 == [k \in 1..n |-> like.coeffs[k][1]]
        c2 == IF code = -1
              THEN Array("R", [k \in 1..n |-> like.coeffs[k][Len(like.coeffs[k])]])
              ELSE None
        sh == LoadShells(0, 0, <<>>, <<code>>, <<like.icenter>>, <<n>>,
                         like.exponents, c1, c2)
    IN  IF sh.exc # NoExc THEN sh ELSE Ok(sh.val[1])

upper_char(c) ==
    IF \E i \in 1..26 : SubSeq(Lowercase, i, i) = c
    THEN LET i == CHOOSE j \in 1..26 : SubSeq(Lowercase, j, j) = c
         IN  SubSeq(Upper, i, i)
    ELSE c

\* str.upper()
RECURSIVE upper(_)
upper(s) == IF s = "" THEN "" ELSE upper_char(Head(s)) \o upper(Tail(s))

\* sub in s
Contains(s, sub) ==
    \E i \in 0..(Len(s) - Len(sub)) : Slice(s, i, i + Len(sub)) = sub

\* level = ['MP2', 'MP3', 'CC', 'CI']
level == <<"MP2", "MP3", "CC", "CI">>

\* namelevel after "for i in level: if i in lot: namelevel = i": the last
\* tag found in lot, or unbound (here "") when none is found
namelevel(lot) ==
    LET found == {i \in 1..Len(level) : Contains(lot, level[i])}
    IN  IF found = {} THEN ""
        ELSE level[CHOOSE i \in found : \A j \in found : j <= i]

\* the loop of _dump_rdms over the keys, from the k-th on; one_rdms is the
\* dict as the list of its (key, matrix) pairs in the order of insertion,
\* out the lines written so far
RECURSIVE DumpRdmsFrom(_, _, _, _)
DumpRdmsFrom(one_rdms, lot, k, out) ==
    IF k > Len(one_rdms) THEN [exc |-> NoExc, val |-> out]
    ELSE LET key == one_rdms[k][1]
             mat == _get_TriangleMat(one_rdms[k][2])
             nl  == namelevel(lot)
             title == IF key = "scf" THEN "Total SCF Density"
                      ELSE IF key = "scf_spin" THEN "Spin SCF Density"
                      ELSE IF key = "post_scf" THEN "Total " \o nl \o " Density"
                      ELSE IF key = "post_scf_spin" THEN "Spin " \o nl \o " Density"
                      ELSE "Total SCF Density"
         IN  IF mat.exc # NoExc THEN [exc |-> mat.exc, val |-> out]
             ELSE IF key \in {"post_scf", "post_scf_spin"} /\ nl = ""
             THEN [exc |-> UnboundLocalError("namelevel"), val |-> out]
             ELSE DumpRdmsFrom(one_rdms, lot, k + 1,
                           out \o _dump_real_arrays(title, mat.val))

\* _dump_rdms: lot_tmp is a str, or None (which has no upper)
_dump_rdms(one_rdms, lot_tmp) ==
    DumpRdmsFrom(one_rdms, upper(IF IsNone(lot_tmp) THEN "None" ELSE lot_tmp.v),
             1, <<>>)

\* ------------------------------------------------------------------------
\* load_many
\* ------------------------------------------------------------------------

\* the label patterns load_many asks for (lines 255-257)
LoadManyPatterns ==
    [isNone |-> FALSE,
     list |-> << "Atomic numbers", "Current cartesian coordinates",
                 "Nuclear charges", "IRC *", "Optimization *",
                 "Opt point *" >>]

AssertionError == [kind |-> "AssertionError", msg |-> ""]

\* prefix after the test of the kind of calculation; "" when the dict has
\* neither of the two counts of geometries
prefix(d) ==
    IF "IRC Number of geometries" \in DOMAIN d THEN "IRC point"
    ELSE IF "Optimization Number of geometries" \in DOMAIN d THEN "Opt point"
    ELSE ""

nsteps(d) ==
    IF "IRC Number of geometries" \in DOMAIN d
    THEN d["IRC Number of geometries"]
    ELSE d["Optimization Number of geometries"]

\* "{} {:7d} <what>".format(prefix, ipoint + 1)
PointLabel(pre, i, what) == pre \o " " \o rjust(IntStr(i + 1), 7) \o " " \o what

\* a[::2] and a[1::2] of a list
EveryOther(xs, first) ==
    [k \in 1..((Len(xs) + 1 - first) \div 2) |-> xs[2 * k - 1 + first]]

\* a.reshape(-1, natom, 3) as the list of its blocks of natom rows of three
Blocks(a, natom) ==
    IF a.kind # "array" THEN Fail(AttributeError("reshape"))
    ELSE IF natom = 0 \/ Len(a.v) % (3 * natom) # 0
    THEN Fail(ValueError("cannot reshape array"))
    ELSE Ok([k \in 1..(Len(a.v) \div (3 * natom)) |->
                SubSeq(a.v, 3 * natom * (k - 1) + 1, 3 * natom * k)])

\* trajectory of the point i: the list of zip of the energies, the reaction
\* coordinates, the geometries and the gradients, as long as the shortest
\* of the four
trajectory(d, i) ==
    LET natom   == Len(d["Atomic numbers"].v)
        results == PointLabel(prefix(d), i, "Results for each geome")
        geoms   == PointLabel(prefix(d), i, "Geometries")
        grads   == PointLabel(prefix(d), i, "Gradient at each geome")
    IN  IF results \notin DOMAIN d THEN Fail(KeyError(results))
        ELSE IF d[results].kind # "array" THEN Fail(TypeError("subscript"))
        ELSE IF geoms \notin DOMAIN d THEN Fail(KeyError(geoms))
        ELSE IF Blocks(d[geoms], natom).exc # NoExc THEN Blocks(d[geoms], natom)
        ELSE IF grads \notin DOMAIN d THEN Fail(KeyError(grads))
        ELSE IF Blocks(d[grads], natom).exc # NoExc THEN Blocks(d[grads], natom)
        ELSE LET energy    == EveryOther(d[results].v, 0)
                 recor     == EveryOther(d[results].v, 1)
                 atcoords  == Blocks(d[geoms], natom).val
                 gradients == Blocks(d[grads], natom).val
                 n == Min(Min(Len(energy), Len(recor)),
                          Min(Len(atcoords), Len(gradients)))
             IN  Ok([k \in 1..n |->
                        [energy |-> energy[k], recor |-> recor[k],
                         atcoords |-> atcoords[k],
                         gradients |-> gradients[k]]])

\* a faulty variant of the data below: the step is numbered from 1
Frame_steps_from_one(d, s, ip, js) ==
    [title      |-> d["title"].v,
     atnums     |-> d["Atomic numbers"].v,
     atcorenums |-> d["Nuclear charges"].v,
     energy     |-> s.energy,
     atcoords   |-> s.atcoords,
     atgradient |-> s.gradients,
     extra      |->
        LET extra == [ipoint |-> ip, npoint |-> Len(nsteps(d).v),
                      istep |-> js + 1, nstep |-> nsteps(d).v[ip + 1]]
        IN  IF prefix(d) = "IRC point"
            THEN [k \in DOMAIN extra \cup {"reaction_coordinate"} |->
                     IF k = "reaction_coordinate" THEN s.recor ELSE extra[k]]
            ELSE extra]

\* data of the step s (of the index js) of the point ip (lines 279-294)
Frame(d, s, ip, js) ==
    [title      |-> d["title"].v,
     atnums     |-> d["Atomic numbers"].v,
     atcorenums |-> d["Nuclear charges"].v,
     energy     |-> s.energy,
     atcoords   |-> s.atcoords,
     atgradient |-> s.gradients,
     extra      |->
        LET extra == [ipoint |-> ip, npoint |-> Len(nsteps(d).v),
                      istep |-> js, nstep |-> nsteps(d).v[ip + 1]]
        IN  IF prefix(d) = "IRC point"
            THEN [k \in DOMAIN extra \cup {"reaction_coordinate"} |->
                     IF k = "reaction_coordinate" THEN s.recor ELSE extra[k]]
            ELSE extra]

\* the kind of calculation and the number of atoms (lines 259-269)
FindTrajectory ==
    /\ pc = "M"
    /\ UNCHANGED <<lines, pos, entry, label_patterns, fchk, hdr, cur>>
    /\ UNCHANGED <<result, manyVars, dumpVars, dataVars>>
    /\ IF prefix(fchk) = ""
       THEN /\ pc' = "raised"
            /\ exc' = lit_error("Could not find IRC or Optimization trajectory in FCHK file.")
       ELSE IF "Atomic numbers" \notin DOMAIN fchk
       THEN pc' = "raised" /\ exc' = KeyError("Atomic numbers")
       ELSE IF fchk["Atomic numbers"].kind # "array"
       THEN pc' = "raised" /\ exc' = AttributeError("size")
       ELSE IF nsteps(fchk).kind # "array"
       THEN pc' = "raised" /\ exc' = TypeError("enumerate")
       ELSE pc' = "point" /\ exc' = exc

\* "for ipoint, nstep in enumerate(nsteps)": the generator returns after the
\* last point; else the trajectory of the point is made and its length is
\* compared with nstep (lines 270-277)
NextPoint ==
    /\ pc = "point"
    /\ UNCHANGED <<lines, pos, entry, label_patterns, fchk, hdr, cur>>
    /\ UNCHANGED <<result, frames, dumpVars, dataVars>>
    /\ IF ipoint >= Len(nsteps(fchk).v)
       THEN pc' = "returned" /\ exc' = exc /\ UNCHANGED <<ipoint, istep>>
       ELSE \E t \in {trajectory(fchk, ipoint)} :
                IF t.exc # NoExc
                THEN pc' = "raised" /\ exc' = t.exc
                     /\ UNCHANGED <<ipoint, istep>>
                ELSE IF Len(t.val) # nsteps(fchk).v[ipoint + 1]
                THEN pc' = "raised" /\ exc' = AssertionError
                     /\ UNCHANGED <<ipoint, istep>>
                ELSE IF Len(t.val) = 0
                THEN pc' = "point" /\ exc' = exc
                     /\ ipoint' = ipoint + 1 /\ istep' = istep
                ELSE pc' = "step" /\ exc' = exc
                     /\ ipoint' = ipoint /\ istep' = 0

\* one pass of "for istep, (...) in enumerate(trajectory)": data is made and
\* yielded to the consumer (lines 278-295)
YieldFrame ==
    /\ pc = "step"
    /\ UNCHANGED <<lines, pos, entry, label_patterns, fchk, hdr, cur>>
    /\ UNCHANGED <<result, dumpVars, dataVars>>
    /\ \E t \in {trajectory(fchk, ipoint).val} :
           IF "Nuclear charges" \notin DOMAIN fchk
           THEN /\ pc' = "raised"
                /\ exc' = KeyError("Nuclear charges")
                /\ UNCHANGED manyVars
           ELSE /\ frames' = Append(frames,
                                    Frame(fchk, t[istep + 1], ipoint, istep))
                /\ exc' = exc
                /\ IF istep + 1 < Len(t)
                   THEN pc' = "step" /\ ipoint' = ipoint /\ istep' = istep + 1
                   ELSE pc' = "point" /\ ipoint' = ipoint + 1 /\ istep' = istep

\* x or "NA" of an attribute that is None or a string
or_NA(x) == IF IsNone(x) THEN "NA" ELSE IF x.v = "" THEN "NA" ELSE x.v

\* format(s, '<n') and format(s, '>n') of a string: n - len(s) blanks
\* after or before s, none when s is longer
Blanks(n) == SubSeq("                                                                        ", 1, Max(n, 0))

\* the two lines that open the file dump_one writes (lines 749-756): the
\* title in 72 columns, then the run type, the level of theory and the
\* name of the basis in upper case in 10, 30 and 33 columns
dump_one_header(title, run_type, lot, obasis_name) ==
    LET items == <<IF or_NA(run_type) = "energy" THEN "SP" ELSE or_NA(run_type),
                   or_NA(lot), or_NA(obasis_name)>>
        line1 == IF IsNone(title) THEN "FCHK generated by IOData"
                 ELSE IF title.v = "" THEN "FCHK generated by IOData"
                 ELSE title.v
        u1 == upper(items[1])
        u2 == upper(items[2])
        u3 == upper(items[3])
    IN  << line1 \o Blanks(72 - Len(line1)),
           u1 \o Blanks(10 - Len(u1)) \o u2 \o Blanks(30 - Len(u2))
               \o Blanks(33 - Len(u3)) \o u3 >>

\* a[:, lo:hi] of a two-dimensional array, for 0 <= lo
ColumnSlice(a, lo, hi) ==
    LET r == a.shape[1]
        c == a.shape[2]
        h == Min(hi, c)
        l == Min(lo, h)
        w == h - l
    IN  Array2(a.dtype, <<r, w>>,
               [k \in 1..(r * w) |->
                   a.v[((k - 1) \div w) * c + l + ((k - 1) % w) + 1]])

\* _split_and_get_coefficients (lines 489-519): coeffs is None or a
\* two-dimensional array; the two blocks are returned flattened
_split_and_get_coefficients(coeffs) ==
    IF IsNone(coeffs)
    THEN [alphaCoeffs |-> Array("R", <<>>), betaCoeffs |-> Array("R", <<>>)]
    ELSE LET nrow == coeffs.shape[1]
             ncol == coeffs.shape[2]
         IN  IF nrow = ncol
             THEN [alphaCoeffs |->
                       Array("R", transpose(ColumnSlice(coeffs, 0, nrow)).v),
                   betaCoeffs |-> Array("R", <<>>)]
             ELSE [alphaCoeffs |->
                       Array("R", transpose(ColumnSlice(coeffs, 0, nrow)).v),
                   betaCoeffs |->
                       Array("R", transpose(ColumnSlice(coeffs, nrow, ncol)).v)]

\* MolecularBasis.nbasis: the sum over the shells of the number of
\* functions of each angular momentum, (l + 1)(l + 2) / 2 Cartesian ones
\* and 2 l + 1 pure ones
RECURSIVE MolecularBasis_nbasis(_)
MolecularBasis_nbasis(shells) ==
    IF shells = <<>> THEN 0
    ELSE LET shell == Head(shells)
             n == [k \in 1..Len(shell.angmoms) |->
                      IF shell.kinds[k] = "c"
                      THEN ((shell.angmoms[k] + 1) * (shell.angmoms[k] + 2)) \div 2
                      ELSE 2 * shell.angmoms[k] + 1]
         IN  (IF Len(n) = 0 THEN 0 ELSE IF Len(n) = 1 THEN n[1]
              ELSE IF Len(n) = 2 THEN n[1] + n[2] ELSE n[1] + n[2] + n[3])
             + MolecularBasis_nbasis(Tail(shells))

\* the lists of the first loop of _dump_basisInfo before any shell
NoShells ==
    [exc |-> NoExc, largestDegreeContraction |-> 0, shellTypes |-> <<>>,
     numberPrimitivesPerShell |-> <<>>, shellAtomMap |-> <<>>,
     primitiveExp |-> <<>>, contractionCoeff |-> <<>>,
     spcontractionCoeff |-> <<>>, coordinatesShell |-> <<>>, totalprim |-> 0]

\* the first loop of _dump_basisInfo (lines 645-665) from the i-th shell
\* on (i counted from 0), acc the lists so far; coords has a row per atom
RECURSIVE BasisLoop(_, _, _, _)
BasisLoop(shells, coords, i, acc) ==
    IF i >= Len(shells) THEN acc
    ELSE LET shell == shells[i + 1]
             nprim == Len(shell.exponents)
             center == shell.icenter
             type == _get_TypeShell(shell)
         IN  IF type.exc # NoExc THEN [acc EXCEPT !.exc = type.exc]
             ELSE IF type.val = -1 /\ \E j \in 1..nprim : Len(shell.coeffs[j]) < 2
             THEN \* coeffs[j][1] of a row of one coefficient
                  [acc EXCEPT !.exc = IndexErrorAt("index 1 is out of bounds for axis 0 with size 1")]
             ELSE BasisLoop(shells, coords, i + 1,
                    [exc |-> NoExc,
                     largestDegreeContraction |->
                         IF nprim > acc.largestDegreeContraction THEN nprim
                         ELSE acc.largestDegreeContraction,
                     shellTypes |-> Append(acc.shellTypes, type.val),
                     numberPrimitivesPerShell |->
                         Append(acc.numberPrimitivesPerShell, nprim),
                     shellAtomMap |-> Append(acc.shellAtomMap, center + 1),
                     primitiveExp |-> acc.primitiveExp \o shell.exponents,
                     contractionCoeff |-> acc.contractionCoeff
                         \o [j \in 1..nprim |-> shell.coeffs[j][1]],
                     spcontractionCoeff |-> acc.spcontractionCoeff
                         \o [j \in 1..nprim |->
                                IF type.val = -1 THEN shell.coeffs[j][2]
                                ELSE Real(0, 0)],
                     coordinatesShell |-> acc.coordinatesShell \o coords[center + 1],
                     totalprim |-> acc.totalprim + nprim])

\* np.amax(np.abs(np.array(shellTypes))) of a list that is not empty
amax_abs(shellTypes) ==
    LET a == {IF shellTypes[k] < 0 THEN -shellTypes[k] ELSE shellTypes[k] :
                 k \in 1..Len(shellTypes)}
    IN  CHOOSE x \in a : \A y \in a : y <= x

\* _dump_basisInfo (lines 603-696): basis.shells and the coordinates of
\* the atoms; the result is the lines written to f
_dump_basisInfo(shells, coords) ==
    LET numberContractedShells == Len(shells)
        nshell == Len(shells)
        l == BasisLoop(shells, coords, 0, NoShells)
        pureDshells == Cardinality({i \in 1..nshell : l.shellTypes[i] = 2})
        pureFshells == Cardinality({i \in 1..nshell : l.shellTypes[i] = 3})
    IN  IF l.exc # NoExc THEN Fail(l.exc)
        ELSE IF l.shellTypes = <<>>
        THEN Fail(ValueError("zero-size array to reduction operation maximum which has no identity"))
        ELSE Ok(
          _dump_integer_scalars("Number of basis functions", Scalar("I", MolecularBasis_nbasis(shells)))
          \o _dump_integer_scalars("Number of independent functions", Scalar("I", MolecularBasis_nbasis(shells)))
          \o _dump_integer_scalars("Number of contracted shells", Scalar("I", numberContractedShells))
          \o _dump_integer_scalars("Number of primitive shells", Scalar("I", l.totalprim))
          \o _dump_integer_scalars("Pure/Cartesian d shells", Scalar("I", pureDshells))
          \o _dump_integer_scalars("Pure/Cartesian f shells", Scalar("I", pureFshells))
          \o _dump_integer_scalars("Highest angular momentum", Scalar("I", amax_abs(l.shellTypes)))
          \o _dump_integer_scalars("Largest degree of contraction", Scalar("I", l.largestDegreeContraction))
          \o _dump_integer_arrays("Shell types", Array("I", l.shellTypes))
          \o _dump_integer_arrays("Number of primitives per shell", Array("I", l.numberPrimitivesPerShell))
          \o _dump_integer_arrays("Shell to atom map", Array("I", l.shellAtomMap))
          \o _dump_real_arrays("Primitive exponents", Array("R", l.primitiveExp))
          \o _dump_real_arrays("Contraction coefficients", Array("R", l.contractionCoeff))
          \o (IF \E i \in 1..nshell : l.shellTypes[i] = -1
              THEN _dump_real_arrays("P(S=P) Contraction coefficients",
                                     Array("R", l.spcontractionCoeff))
              ELSE <<>>)
          \o _dump_real_arrays("Coordinates of each shell", Array("R", l.coordinatesShell)))

\* ------------------------------------------------------------------------
\* IOData: the type-checked attributes (iodata.py)
\* ------------------------------------------------------------------------

\* an ndarray: its dtype, its shape and its elements in row-major order
NDArray(dtype, shape, xs) == [dtype |-> dtype, shape |-> shape, v |-> xs]

\* no array: what a call that raised, or __delete__, leaves as its value
NoValue == NDArray("", <<>>, <<>>)

\* the descriptors of the class IOData with matching attributes
\* (lines 301-324)
Descriptors ==
    [atcoords   |-> [ndim |-> 2, shape |-> <<-1, 3>>, dtype |-> "float",
                     matching |-> <<"atcorenums", "atforces", "atfrozen",
                                    "atmasses", "atnums">>,
                     default |-> ""],
     atcorenums |-> [ndim |-> 1, shape |-> <<-1>>, dtype |-> "float",
                     matching |-> <<"atcoords", "atforces", "atfrozen",
                                    "atmasses", "atnums">>,
                     default |-> "atnums"],
     atforces   |-> [ndim |-> 2, shape |-> <<-1, 3>>, dtype |-> "float",
                     matching |-> <<"atcoords", "atcorenums", "atfrozen",
                                    "atmasses", "atnums">>,
                     default |-> ""],
     atfrozen   |-> [ndim |-> 1, shape |-> <<-1>>, dtype |-> "bool",
                     matching |-> <<"atcoords", "atcorenums", "atforces",
                                    "atmasses", "atnums">>,
                     default |-> ""],
     atmasses   |-> [ndim |-> 1, shape |-> <<-1>>, dtype |-> "float",
                     matching |-> <<"atcoords", "atcorenums", "atforces",
                                    "atfrozen", "atnums">>,
                     default |-> ""],
     atnums     |-> [ndim |-> 1, shape |-> <<-1>>, dtype |-> "int",
                     matching |-> <<"atcoords", "atcorenums", "atforces",
                                    "atfrozen", "atmasses">>,
                     default |-> ""]]

\* one element x of the dtype `from` as an element of the dtype `to`
CastElement(x, from, to) ==
    IF from = to THEN x
    ELSE IF from = "int" /\ to = "float" THEN Real(x, 0)
    ELSE IF from = "int" /\ to = "bool" THEN x # 0
    ELSE IF from = "bool" /\ to = "int" THEN IF x THEN 1 ELSE 0
    ELSE IF from = "bool" /\ to = "float" THEN Real(IF x THEN 1 ELSE 0, 0)
    ELSE IF from = "float" /\ to = "bool" THEN x.m # 0
    ELSE \* float to int: towards zero
         IF x.e >= 0 THEN x.m * (10 ^ x.e)
         ELSE (IF x.m < 0 THEN -1 ELSE 1) * (abs(x.m) \div (10 ^ (-x.e)))

\* a.astype(dtype), np.array(a, dtype=dtype)
astype(a, dtype) ==
    NDArray(dtype, a.shape,
            [k \in 1..Len(a.v) |-> CastElement(a.v[k], a.dtype, dtype)])

\* the outcome of an access: the exception, the instance after it and the
\* value returned
Outcome(e, o, x) == [exc |-> e, obj |-> o, val |-> x]

\* a faulty variant of the search below: only the first matching attribute
\* is looked at
Incompatible_first_name(o, d, value, k) ==
    LET othername == d.matching[k]
    IN  IF "_" \o othername \in DOMAIN o
           /\ \E i \in 1..Len(d.shape) :
                  /\ d.shape[i] = -1
                  /\ o["_" \o othername].shape[i] # value.shape[i]
        THEN othername
        ELSE ""

\* the first (othername, i) of "for othername in self._matching: ... for i
\* in range(len(self._shape))" whose shapes differ, from the k-th name on;
\* "" when there is none
RECURSIVE Incompatible(_, _, _, _)
Incompatible(o, d, value, k) ==
    IF k > Len(d.matching) THEN ""
    ELSE LET othername == d.matching[k]
         IN  IF "_" \o othername \in DOMAIN o
                /\ \E i \in 1..Len(d.shape) :
                       /\ d.shape[i] = -1
                       /\ o["_" \o othername].shape[i] # value.shape[i]
             THEN othername
             ELSE Incompatible(o, d, value, k + 1)

\* ArrayTypeCheckDescriptor.__set__ (lines 104-132) of the attribute name on
\* the instance o with the value given
__set__(o, name, given) ==
    LET d     == Descriptors[name]
        value == astype(given, d.dtype)
    IN  IF Len(value.shape) # d.ndim
        THEN Outcome(TypeError("must be a numpy array with ndim dimension(s)"),
                     o, NoValue)
        ELSE IF \E i \in 1..Len(d.shape) :
                    d.shape[i] >= 0 /\ d.shape[i] # value.shape[i]
        THEN Outcome(TypeError("must be a numpy array n elements in dimension i"),
                     o, NoValue)
        ELSE IF value.dtype # d.dtype
        THEN Outcome(TypeError("must be a numpy array with dtype"), o, NoValue)
        ELSE IF Incompatible(o, d, value, 1) # ""
        THEN Outcome(TypeError("shape is incompatible with that of "
                               \o Incompatible(o, d, value, 1)),
                     o, NoValue)
        ELSE Outcome(NoExc, Put(o, "_" \o name, value), NoValue)

\* ArrayTypeCheckDescriptor.__get__ (lines 93-102) on an instance
__get__(o, name) ==
    LET d == Descriptors[name]
    IN  IF d.default # "" /\ "_" \o name \notin DOMAIN o
        THEN IF "_" \o d.default \notin DOMAIN o
             THEN Outcome(AttributeError("_" \o d.default), o, NoValue)
             ELSE LET default == astype(o["_" \o d.default], d.dtype)
                  IN  Outcome(NoExc, Put(o, "_" \o name, default), default)
        ELSE IF "_" \o name \notin DOMAIN o
        THEN Outcome(AttributeError("_" \o name), o, NoValue)
        ELSE Outcome(NoExc, o, o["_" \o name])

\* ArrayTypeCheckDescriptor.__delete__ (lines 134-135)
__delete__(o, name) ==
    IF "_" \o name \notin DOMAIN o
    THEN Outcome(AttributeError("_" \o name), o, NoValue)
    ELSE Outcome(NoExc, [k \in DOMAIN o \ {"_" \o name} |-> o[k]], NoValue)

\* the access fn to the attribute name with the argument given had the
\* outcome r
Accessed(fn, name, given, r) ==
    /\ obj' = r.obj
    /\ op' = [fn |-> fn, name |-> name, exc |-> r.exc, before |-> obj,
              value |-> IF fn = "__set__" THEN given ELSE r.val]
    /\ assigned' = IF /\ fn = "__set__"
                      /\ r.exc = NoExc
                      /\ Descriptors[name].default # ""
                   THEN assigned \cup {name} ELSE assigned
    /\ UNCHANGED <<readerVars, result, manyVars, dumpVars>>

\* ------------------------------------------------------------------------
\* Calls of the dump side: the functions named in call.fns are applied in
\* turn, the first to call.arg and each other one to the value before it
\* ------------------------------------------------------------------------

\* the function fn is the next to be called
Pending(fn) ==
    /\ Len(ret) < Len(call.fns)
    /\ call.fns[Len(ret) + 1] = fn
    /\ IF ret = <<>> THEN TRUE ELSE ret[Len(ret)].exc = NoExc

\* what the next function is called with
Input == IF ret = <<>> THEN call.arg ELSE ret[Len(ret)].val

Returns(x) ==
    /\ ret' = Append(ret, x)
    /\ UNCHANGED <<call, readerVars, result, manyVars, dataVars>>

GetTriangleMat ==
    Pending("_get_TriangleMat") /\ Returns(_get_TriangleMat(Input))

TriangleToDense ==
    Pending("_triangle_to_dense") /\ Returns(_triangle_to_dense(Input))

SortQuadrupole ==
    Pending("_sort_quadrupole") /\ Returns(_sort_quadrupole(Input))

LoadQuadrupole ==
    Pending("load_quadrupole") /\ Returns(load_quadrupole(Input))

\* the argument of the two shell functions is a shell, with a type code
\* when the load-side rules come first
GetTypeShell ==
    /\ Pending("_get_TypeShell")
    /\ Returns(_get_TypeShell(IF ret = <<>> THEN call.arg.shell ELSE Input))

LoadShell ==
    /\ Pending("load_shell")
    /\ Returns(load_shell(IF ret = <<>> THEN call.arg.code ELSE Input,
                          call.arg.shell))

\* the argument of the four dumpers is a name and a value; what they return
\* here is the list of the lines they print
DumpIntegerScalars ==
    /\ Pending("_dump_integer_scalars")
    /\ Returns(Ok(_dump_integer_scalars(Input.name, Input.val)))

DumpRealScalars ==
    /\ Pending("_dump_real_scalars")
    /\ Returns(Ok(_dump_real_scalars(Input.name, Input.val)))

DumpIntegerArrays ==
    /\ Pending("_dump_integer_arrays")
    /\ Returns(Ok(_dump_integer_arrays(Input.name, Input.val)))

DumpRealArrays ==
    /\ Pending("_dump_real_arrays")
    /\ Returns(Ok(_dump_real_arrays(Input.name, Input.val)))

\* the argument of _split_and_get_coefficients is mo.coeffs of the orbitals
SplitAndGetCoefficients ==
    /\ Pending("_split_and_get_coefficients")
    /\ Returns(Ok(_split_and_get_coefficients(Input.coeffs)))

\* the arguments of _dump_basisInfo are the shells of data.obasis and
\* data.atcoords
DumpBasisInfo ==
    /\ Pending("_dump_basisInfo")
    /\ Returns(_dump_basisInfo(Input.shells, Input.coords))

\* the argument of _dump_rdms is the dict and the level of theory
DumpRdms ==
    /\ Pending("_dump_rdms")
    /\ Returns(_dump_rdms(Input.one_rdms, Input.lot))

\* _load_fchk_field as a whole: the passes of its loop "while True" from the
\* cursor p on, up to the first that returns or raises
RECURSIVE NextField(_, _, _)
NextField(ls, p, pats) ==
    LET f == _load_fchk_field(ls, p, pats)
    IN  IF f.kind = "continue" THEN NextField(ls, f.pos, pats) ELSE f

\* the field reader, without patterns, on the lines printed
ReadBack ==
    /\ Pending("_load_fchk_field")
    /\ Returns(NextField(Input, 0, [isNone |-> TRUE, list |-> <<>>]))



\* ------------------------------------------------------------------------
\* Files the reader is run on
\* ------------------------------------------------------------------------

\* a field line: the label in columns 1-43, then the words
FieldLine(label, rest) == ljust(label, LabelWidth) \o rest

\* the concatenation of a sequence of sequences
RECURSIVE Flatten(_)
Flatten(ss) == IF ss = <<>> THEN <<>> ELSE Head(ss) \o Flatten(Tail(ss))

\* sequences over S of length at most n
SeqsUpTo(S, n) == UNION {[1..k -> S] : k \in 0..n}

MaxFields == 3

\* Renderings of one field each, well-formed and not: the header line and
\* the lines that follow it.
Chunks ==
    { <<FieldLine("Charge", "I                0")>>,
      <<FieldLine("Total Energy", "R     -7.500000000000000E+01")>>,
      \* arrays whose values span two lines
      <<FieldLine("Int Atom Types", "I   N=           3"),
        "           1           2", "           3">>,
      <<FieldLine("Total SCF Density", "R   N=           3"),
        "  1.00000000E+00 -2.50000000E-01", "  5.00000000E-01">>,
      \* seven integers, six to a line (the first line passes column 43)
      <<FieldLine("MicOpt", "I   N=           7"),
        "          -1          -1          -1          -1          -1          -1",
        "          -1">>,
      \* one value short of the declared count
      <<FieldLine("Total MP2 Density", "R   N=           3"),
        "  1.00000000E+00 -2.50000000E-01">>,
      <<FieldLine("Int Atom Types", "I   N=           2"),
        "           1">>,
      \* a blank line among the values
      <<FieldLine("Total CC Density", "R   N=           1"), "",
        "  1.00000000E+00">>,
      \* field lines with a type code and one or four words
      <<FieldLine("Charge", "I")>>,
      <<FieldLine("Total Energy", "R     -7.5 0.0 0.0")>>,
      \* unparsable value, missing N=, unparsable and negative count
      <<FieldLine("Charge", "I                x")>>,
      <<FieldLine("Total CI Density", "R   M=           1"),
        "  1.00000000E+00">>,
      <<FieldLine("Total CI Density", "R   N=           x")>>,
      <<FieldLine("Total CI Density", "R   N=          -1")>>,
      \* a character field, which the reader does not know
      <<FieldLine("Route", "C   N=           1"), "#p hf/sto-3g">> }

ReaderPatterns ==
    { [isNone |-> TRUE, list |-> <<>>],
      [isNone |-> FALSE, list |-> <<"Charge", "Total *">>] }

ReaderFiles ==
    { <<"water", "SP        RHF       STO-3G">> \o Flatten(cs) :
        cs \in SeqsUpTo(Chunks, MaxFields) }
      \cup { <<>>, <<"water">>, <<"water", "SP">>,
             <<"water", "SP        RHF">>,
             <<"water", "SP RHF STO-3G opt">> }

Init ==
    /\ lines \in ReaderFiles
    /\ label_patterns \in ReaderPatterns
    /\ entry = "_load_fchk_low"
    /\ pos = 0
    /\ pc = "start"
    /\ fchk = EmptyDict
    /\ hdr = 0
    /\ cur = NoArray
    /\ exc = NoExc
    /\ result = EmptyDict
    /\ ipoint = 0
    /\ istep = 0
    /\ frames = <<>>
    /\ call = NoCall
    /\ ret = <<>>
    /\ obj = EmptyDict
    /\ op = NoOp
    /\ assigned = {}

Next == ReadHeader \/ ReadField

Spec == Init /\ [][Next]_vars

\* ------------------------------------------------------------------------
\* Files load_one is run on
\* ------------------------------------------------------------------------

MaxElectrons == 3

MaxOrbitals == 3

\* n copies of x
Repeat(x, n) == [i \in 1..n |-> x]

\* A file of a molecule with one atom and nbasis s shells, written with the
\* dumpers: nalpha, nbeta electrons, nbi independent functions (the line is
\* spelt as `indep` says, or left out), beta orbitals if `beta`, and the
\* densities named in dens.
LoadFile(second, nalpha, nbeta, nbasis, nbi, indep, beta, dens) ==
    LET one   == Real(1, 0)
        half  == Real(5, -1)
        ntri  == (nbasis * (nbasis + 1)) \div 2
        I(x)  == Scalar("I", x)
        IA(x, n) == Array("I", Repeat(x, n))
        RA(x, n) == Array("R", Repeat(x, n))
        Dens(label, x) ==
            IF label \in dens THEN _dump_real_arrays(label, RA(x, ntri))
            ELSE <<>>
    IN  <<"water", second>>
        \o _dump_integer_scalars("Number of electrons", I(nalpha + nbeta))
        \o _dump_integer_scalars("Number of alpha electrons", I(nalpha))
        \o _dump_integer_scalars("Number of beta electrons", I(nbeta))
        \o _dump_integer_scalars("Number of basis functions", I(nbasis))
        \o (IF indep = "" THEN <<>>
            ELSE _dump_integer_scalars("Number of " \o indep \o " functions",
                                       I(nbi)))
        \o _dump_integer_arrays("Atomic numbers", IA(8, 1))
        \o _dump_real_arrays("Nuclear charges", RA(Real(8, 0), 1))
        \o _dump_real_arrays("Current cartesian coordinates",
                             Array("R", <<Real(0, 0), Real(0, 0), half>>))
        \o _dump_integer_arrays("Shell types", IA(0, nbasis))
        \o _dump_integer_arrays("Number of primitives per shell", IA(1, nbasis))
        \o _dump_integer_arrays("Shell to atom map", IA(1, nbasis))
        \o _dump_real_arrays("Primitive exponents", RA(half, nbasis))
        \o _dump_real_arrays("Contraction coefficients", RA(one, nbasis))
        \o _dump_real_scalars("Total Energy", Scalar("R", Real(-75, 0)))
        \o _dump_real_arrays("Alpha Orbital Energies", RA(Real(-5, -1), nbi))
        \o _dump_real_arrays("Alpha MO coefficients", RA(one, nbi * nbasis))
        \o (IF beta
            THEN _dump_real_arrays("Beta Orbital Energies", RA(Real(-4, -1), nbi))
                 \o _dump_real_arrays("Beta MO coefficients", RA(half, nbi * nbasis))
            ELSE <<>>)
        \o Dens("Total SCF Density", one)
        \o Dens("Spin SCF Density", half)
        \o Dens("Total MP2 Density", Real(2, 0))

ThreeWords == "SP        RHF       STO-3G"

\* the run types load_one can produce
RunTypes == {"energy", "opt", "scan", "freq"}

\* the file of a closed-shell molecule as dump_one opens it for a record
\* with the run type rt, or with none
Dumped(rt) ==
    LET header == dump_one_header(Str("water"), rt, Str("rhf"), Str("sto-3g"))
    IN  [LoadFile(header[2], 1, 1, 2, 2, "independent", FALSE,
                  {"Total SCF Density"}) EXCEPT ![1] = header[1]]

LoadFiles ==
    { LoadFile(ThreeWords, na, nb, n, n, "independent", beta, dens) :
        na \in -1..MaxElectrons, nb \in -1..MaxElectrons, n \in 1..MaxOrbitals,
        beta \in BOOLEAN,
        dens \in SUBSET {"Total SCF Density", "Spin SCF Density",
                         "Total MP2 Density"} }
    \cup
    \* other second lines, the other spelling, and no count of independent
    \* functions, for a closed-shell molecule
    { LoadFile(second, 1, 1, 2, nbi, indep, FALSE, {"Total SCF Density"}) :
        second \in {ThreeWords, "SP        RHF", "SP", "Freq RHF STO-3G 5D"},
        nbi \in 1..2, indep \in {"independant", ""} }
    \cup
    \* files opened by dump_one
    { Dumped(Str(rt)) : rt \in RunTypes } \cup { Dumped(None) }

InitLoad ==
    /\ lines \in LoadFiles
    /\ label_patterns = LoadOnePatterns
    /\ entry = "load_one"
    /\ pos = 0
    /\ pc = "start"
    /\ fchk = EmptyDict
    /\ hdr = 0
    /\ cur = NoArray
    /\ exc = NoExc
    /\ result = EmptyDict
    /\ ipoint = 0
    /\ istep = 0
    /\ frames = <<>>
    /\ call = NoCall
    /\ ret = <<>>
    /\ obj = EmptyDict
    /\ op = NoOp
    /\ assigned = {}

NextLoad ==
    \/ ReadHeader
    \/ ReadField
    \/ LoadSimple
    \/ LoadBasis
    \/ LoadDensities
    \/ LoadElectrons
    \/ LoadOrbitals
    \/ LoadProperties

SpecLoad == InitLoad /\ [][NextLoad]_vars

\* ------------------------------------------------------------------------
\* Calls the dump side is run on
\* ------------------------------------------------------------------------

MaxDim == 3

MaxAngmom == 3

MaxArray == 13

\* the sequences of length n over S
SeqsOfLen(S, n) == [1..n -> S]

\* the number of elements of the triangle of an n x n matrix
TriangleSize(n) == (n * (n + 1)) \div 2

\* 1.0, 2.0, ..., n.0
Counting(n) == [k \in 1..n |-> Real(k, 0)]

\* triangles of 1..MaxDim rows: all those of two values, and 1.0, 2.0, ...;
\* and an array of two elements, which is no triangle
Triangles ==
    UNION { SeqsOfLen({Real(1, 0), Real(-25, -1)}, TriangleSize(n))
            \cup {Counting(TriangleSize(n))} : n \in 1..MaxDim }
    \cup {Counting(2)}

\* the symmetric n x n matrix whose lower triangle, row after row, is t
SymmetricFrom(n, t) ==
    Array2("R", <<n, n>>,
           [k \in 1..(n * n) |->
               LET i == (k - 1) \div n
                   j == (k - 1) % n
               IN  t[TriangleSize(Max(i, j)) + Min(i, j) + 1]])

\* symmetric matrices, a matrix that is not symmetric, and two that are not
\* square
Matrices ==
    UNION { { SymmetricFrom(n, t) :
                  t \in { u \in Triangles : Len(u) = TriangleSize(n) } } :
            n \in 1..MaxDim }
    \cup { Array2("R", <<2, 2>>, Counting(4)),
           Array2("R", <<2, 1>>, Counting(2)),
           Array2("R", <<1, 2>>, Counting(2)) }

\* vectors of six components, and of none and of three
Quadrupoles ==
    { Array("R", q) : q \in SeqsOfLen({Real(1, 0), Real(-25, -1)}, 6)
                            \cup {Counting(6), Counting(3), <<>>} }

\* n primitives with c coefficients each
Primitives(n, c) ==
    [exponents |-> [k \in 1..n |-> Real(5 * k, -1)],
     coeffs    |-> [k \in 1..n |-> [j \in 1..c |-> Real(k + j, 0)]]]

ShellOf(angmoms, kinds, n, c) ==
    Shell(0, angmoms, kinds, Primitives(n, c).exponents, Primitives(n, c).coeffs)

\* shells of one angular momentum, Cartesian and pure, SP shells, and
\* shells of two and of three angular momenta that are no SP shells
Shells ==
    { ShellOf(<<l>>, <<k>>, n, 1) : l \in 0..MaxAngmom, k \in {"c", "p"},
                                    n \in 1..2 }
    \cup { ShellOf(<<0, 1>>, <<"c", "c">>, n, 2) : n \in 1..2 }
    \cup { ShellOf(<<0, 1>>, <<"c", "c">>, 1, 1),
           ShellOf(<<0, 1, 2>>, <<"c", "c", "c">>, 1, 3) }

\* labels of fewer than 40, of 40 and of more than 40 characters
Labels ==
    { "Charge", "Number of independent functions",
      "IRC point       1 Results for each geome",
      "IRC point       1 Results for each geometry",
      "Number of symbols in /Mol/ after which the data ends" }

IntegerValues == {0, 5, -12, 2147483647, -2147483647}

\* reals of one, of nine and of ten significant digits
RealValues ==
    { Real(0, 0), Real(1, 0), Real(-25, -1), Real(-75, 0),
      Real(123456789, -8), Real(1234567891, -9), Real(-999999999, 3),
      Real(1999999996, -12) }

\* arrays of 0..MaxArray integers and reals: 1, 2, ... with the values
\* above in the first places
ArrayOf(vals, n, counting) ==
    [k \in 1..n |-> IF k <= Len(vals) THEN vals[k] ELSE counting[k]]

IntegerArrays ==
    { Array("I", ArrayOf(vals, n, [k \in 1..n |-> k])) :
        n \in 0..MaxArray, vals \in {<<>>, <<-12, 0, 2147483647>>} }

RealArrays ==
    { Array("R", ArrayOf(vals, n, Counting(n))) :
        n \in 0..MaxArray,
        vals \in {<<>>, <<Real(-25, -1), Real(123456789, -8)>>,
                  <<Real(1234567891, -9)>>,
                  <<Real(1, 0), Real(-1, -100)>>} }

\* dicts of at most two density matrices, as lists of (key, matrix)
DensityDicts ==
    LET keys == {"scf", "scf_spin", "post_scf", "post_scf_spin", "mp2"}
        mat(k) == SymmetricFrom(2, Counting(3))
    IN  {<<>>} \cup { << <<k, mat(k)>> >> : k \in keys }
        \cup { << <<p[1], mat(p[1])>>, <<p[2], mat(p[2])>> >> :
                 p \in { q \in keys \X keys : q[1] # q[2] } }

\* levels of theory: a str with a tag, with two, or with none
Lots ==
    { Str(t) : t \in {"mp2", "MP3", "ccsd(t)", "CISD", "rhf", "B3LYP",
                      "mp2 ci", "Ci-cc", ""} }

Call(fns, arg) == [fns |-> fns, arg |-> arg]

TriangleCalls ==
    { Call(<<"_triangle_to_dense", "_get_TriangleMat">>, Array("R", t)) :
        t \in Triangles }

MatrixCalls ==
    { Call(<<"_get_TriangleMat", "_triangle_to_dense">>, m) :
             m \in Matrices }

QuadrupoleCalls ==
    { Call(fns, q) : q \in Quadrupoles,
             fns \in { <<"load_quadrupole", "_sort_quadrupole">>,
                       <<"_sort_quadrupole", "load_quadrupole">> } }

EncodeCalls ==
    { Call(<<"_get_TypeShell", "load_shell">>, [code |-> 0, shell |-> s]) :
             s \in Shells }

DecodeCalls ==
    { Call(<<"load_shell", "_get_TypeShell">>,
                [code |-> c,
                 shell |-> ShellOf(<<0>>, <<"c">>, n, IF c = -1 THEN 2 ELSE 1)]) :
             c \in (-MaxAngmom)..MaxAngmom, n \in 1..2 }

IntegerScalarCalls ==
    { Call(<<"_dump_integer_scalars", "_load_fchk_field">>,
                [name |-> l, val |-> v]) :
             l \in Labels,
             v \in { Scalar("I", x) : x \in IntegerValues } }

RealScalarCalls ==
    { Call(<<"_dump_real_scalars", "_load_fchk_field">>,
                [name |-> l, val |-> v]) :
             l \in Labels,
             v \in { Scalar("R", x) : x \in RealValues } }

IntegerArrayCalls ==
    { Call(<<"_dump_integer_arrays", "_load_fchk_field">>,
                [name |-> l, val |-> v]) :
             l \in Labels, v \in IntegerArrays }

RealArrayCalls ==
    { Call(<<"_dump_real_arrays", "_load_fchk_field">>,
                [name |-> l, val |-> v]) :
             l \in Labels, v \in RealArrays }

RdmsCalls ==
    { Call(<<"_dump_rdms">>, [one_rdms |-> d, lot |-> lot]) :
             d \in DensityDicts, lot \in Lots }

\* orbitals of 1..MaxDim basis functions: restricted ones with norba
\* columns (norbb = 0 here), unrestricted ones with norba + norbb columns;
\* the coefficients are 1.0, 2.0, ...
Orbitals ==
    { [coeffs |-> Array2("R", <<t[1], t[2] + t[3]>>,
                         Counting(t[1] * (t[2] + t[3]))),
       norba |-> t[2], norbb |-> t[3]] :
        t \in { u \in (1..MaxDim) \X (1..MaxDim) \X (0..MaxDim) :
                  u[2] <= u[1] /\ u[3] <= u[2] } }

CoefficientCalls ==
    { Call(<<"_split_and_get_coefficients">>, mo) : mo \in Orbitals }

MaxShells == 2

\* basis sets of up to MaxShells shells, all centred on the one atom; the
\* first shell has one or two primitives, the others one
BasisSets ==
    LET of(n) == { s \in Shells : Len(s.exponents) = n }
    IN  {<<>>} \cup { <<s>> : s \in Shells }
        \cup UNION { { <<s>> \o t : s \in Shells } :
                       t \in SeqsOfLen(of(1), MaxShells - 1) }

BasisCalls ==
    { Call(<<"_dump_basisInfo">>,
           [shells |-> b, coords |-> <<Counting(3)>>]) : b \in BasisSets }

\* the calls with a value that is None
AbsentCalls ==
    { Call(<<fn, "_load_fchk_field">>, [name |-> l, val |-> None]) :
        l \in Labels,
        fn \in {"_dump_integer_scalars", "_dump_real_scalars",
                "_dump_integer_arrays", "_dump_real_arrays"} }
    \cup { Call(<<"_dump_rdms">>, [one_rdms |-> d, lot |-> None]) :
             d \in DensityDicts }
    \cup { Call(<<"_split_and_get_coefficients">>,
                [coeffs |-> None, norba |-> 0, norbb |-> 0]) }

InitDump ==
    /\ \/ call \in TriangleCalls
       \/ call \in MatrixCalls
       \/ call \in QuadrupoleCalls
       \/ call \in EncodeCalls
       \/ call \in DecodeCalls
       \/ call \in IntegerScalarCalls
       \/ call \in RealScalarCalls
       \/ call \in IntegerArrayCalls
       \/ call \in RealArrayCalls
       \/ call \in RdmsCalls
       \/ call \in CoefficientCalls
       \/ call \in BasisCalls
       \/ call \in AbsentCalls
    /\ ret = <<>>
    /\ obj = EmptyDict
    /\ op = NoOp
    /\ assigned = {}
    /\ entry = "dump"
    /\ lines = <<>>
    /\ label_patterns = [isNone |-> TRUE, list |-> <<>>]
    /\ pos = 0
    /\ pc = "dump"
    /\ fchk = EmptyDict
    /\ hdr = 0
    /\ cur = NoArray
    /\ exc = NoExc
    /\ result = EmptyDict
    /\ ipoint = 0
    /\ istep = 0
    /\ frames = <<>>

NextDump ==
    \/ GetTriangleMat
    \/ TriangleToDense
    \/ SortQuadrupole
    \/ LoadQuadrupole
    \/ GetTypeShell
    \/ LoadShell
    \/ DumpIntegerScalars
    \/ DumpRealScalars
    \/ DumpIntegerArrays
    \/ DumpRealArrays
    \/ DumpRdms
    \/ SplitAndGetCoefficients
    \/ DumpBasisInfo
    \/ ReadBack

SpecDump == InitDump /\ [][NextDump]_vars
\* ------------------------------------------------------------------------
\* Files load_many is run on
\* ------------------------------------------------------------------------

MaxPoints == 2

MaxSteps == 3

\* the declared numbers of steps of 1..MaxPoints points
StepCounts == UNION { [1..k -> 1..MaxSteps] : k \in 1..MaxPoints }

\* n reals, all different, for the field f of the point p
RealsOf(p, f, n) == Array("R", [k \in 1..n |-> Real(1000 * p + 100 * f + k, -2)])

\* the sizes of the three fields of a point of n steps of natom atoms
SizesOf(n, natom) == <<2 * n, 3 * natom * n, 3 * natom * n>>

\* the ways a field of a point is made to differ from the declared count:
\* one step fewer, one step more, one value more, or no field at all; the
\* field 0 is the declared count itself
Defects(k) ==
    { d \in [point : 1..k, field : 0..3,
             how : {"fewer", "more", "odd", "missing"}] :
        d.field = 0 => d.how \in {"fewer", "more"} }

NoDefect == [point |-> 0, field |-> 0, how |-> ""]

Defective(size, unit, how) ==
    IF how = "fewer" THEN size - unit
    ELSE IF how = "more" THEN size + unit
    ELSE IF how = "odd" THEN size + 1
    ELSE 0

\* the three fields of the points from p on
RECURSIVE PointFields(_, _, _, _, _)
PointFields(pre, p, declared, natom, defect) ==
    IF p > Len(declared) THEN <<>>
    ELSE LET sizes == SizesOf(declared[p], natom)
             size(f) == IF defect.point = p /\ defect.field = f
                        THEN Defective(sizes[f], sizes[f] \div declared[p],
                                       defect.how)
                        ELSE sizes[f]
         IN  _dump_real_arrays(PointLabel(pre, p - 1, "Results for each geome"),
                               RealsOf(p, 1, size(1)))
             \o _dump_real_arrays(PointLabel(pre, p - 1, "Geometries"),
                                  RealsOf(p, 2, size(2)))
             \o _dump_real_arrays(PointLabel(pre, p - 1, "Gradient at each geome"),
                                  RealsOf(p, 3, size(3)))
             \o PointFields(pre, p + 1, declared, natom, defect)

\* a file of a trajectory of the kind given ("IRC" or "Optimization"; ""
\* for a file without trajectory), without the fields named in `without`
ManyFile(kind, atnums, declared, defect, without) ==
    LET natom == Len(atnums)
        count == [p \in 1..Len(declared) |->
                     IF defect.point = p /\ defect.field = 0
                     THEN Defective(declared[p], 1, defect.how)
                     ELSE declared[p]]
        pre   == IF kind = "IRC" THEN "IRC point" ELSE "Opt point"
    IN  <<"water irc", ThreeWords>>
        \o _dump_integer_scalars("Number of atoms", Scalar("I", natom))
        \o (IF "Atomic numbers" \in without THEN <<>>
            ELSE _dump_integer_arrays("Atomic numbers", Array("I", atnums)))
        \o (IF "Nuclear charges" \in without THEN <<>>
            ELSE _dump_real_arrays("Nuclear charges",
                     Array("R", [k \in 1..natom |-> Real(atnums[k], 0)])))
        \o _dump_real_arrays("Current cartesian coordinates",
                             RealsOf(0, 0, 3 * natom))
        \o (IF kind = "" THEN <<>>
            ELSE _dump_integer_arrays(kind \o " Number of geometries",
                                      Array("I", count)))
        \o PointFields(pre, 1, declared, natom, defect)

ManyFiles ==
    { ManyFile(kind, atnums, declared, NoDefect, {}) :
        kind \in {"IRC", "Optimization"}, atnums \in {<<1>>, <<8, 1>>},
        declared \in StepCounts }
    \cup UNION { { ManyFile("IRC", <<1>>, declared, defect, {}) :
                     defect \in Defects(Len(declared)) } :
                 declared \in StepCounts }
    \cup { ManyFile(kind, <<1>>, <<2, 1>>, NoDefect, without) :
             kind \in {"IRC", "Optimization", ""},
             without \in {{"Atomic numbers"}, {"Nuclear charges"}, {}} }

InitMany ==
    /\ lines \in ManyFiles
    /\ label_patterns = LoadManyPatterns
    /\ entry = "load_many"
    /\ pos = 0
    /\ pc = "start"
    /\ fchk = EmptyDict
    /\ hdr = 0
    /\ cur = NoArray
    /\ exc = NoExc
    /\ result = EmptyDict
    /\ ipoint = 0
    /\ istep = 0
    /\ frames = <<>>
    /\ call = NoCall
    /\ ret = <<>>
    /\ obj = EmptyDict
    /\ op = NoOp
    /\ assigned = {}

NextMany ==
    \/ ReadHeader
    \/ ReadField
    \/ FindTrajectory
    \/ NextPoint
    \/ YieldFrame

SpecMany == InitMany /\ [][NextMany]_vars

\* ------------------------------------------------------------------------
\* Accesses IOData is run on
\* ------------------------------------------------------------------------

MaxAtoms == 2

\* what the caller assigns to the attribute name: for 0..MaxAtoms atoms an
\* array of the number of dimensions of the attribute (1, 2, ... and, for
\* the two attributes of the nuclei, also 8, 8, ...), an array of the other
\* number of dimensions and, for an array of three columns, one of two
GivenValues(name) ==
    LET vectors  == { NDArray("int", <<n>>, [k \in 1..n |-> k]) :
                        n \in 0..MaxAtoms }
        nuclei   == { NDArray("int", <<n>>, [k \in 1..n |-> 8]) :
                        n \in 1..MaxAtoms }
        matrices == { NDArray("int", <<n, 3>>, [k \in 1..(3 * n) |-> 1]) :
                        n \in 0..MaxAtoms }
    IN  IF name \in {"atcoords", "atforces"}
        THEN matrices \cup { NDArray("int", <<1, 2>>, <<1, 1>>),
                             NDArray("int", <<1>>, <<1>>) }
        ELSE IF name \in {"atnums", "atcorenums"}
        THEN vectors \cup nuclei \cup { NDArray("int", <<1, 3>>, <<1, 1, 1>>) }
        ELSE vectors \cup { NDArray("int", <<1, 3>>, <<1, 1, 1>>) }

\* obj.name = given, obj.name and del obj.name for the type-checked
\* attributes of the atoms
SetAttribute ==
    /\ pc = "data"
    /\ \E name \in DOMAIN Descriptors :
           \E given \in GivenValues(name) :
               Accessed("__set__", name, given, __set__(obj, name, given))

GetAttribute ==
    /\ pc = "data"
    /\ \E name \in DOMAIN Descriptors :
           Accessed("__get__", name, NoValue, __get__(obj, name))

DeleteAttribute ==
    /\ pc = "data"
    /\ \E name \in DOMAIN Descriptors :
           Accessed("__delete__", name, NoValue, __delete__(obj, name))

\* IOData(): no keyword argument
InitData ==
    /\ obj = EmptyDict
    /\ op = NoOp
    /\ assigned = {}
    /\ entry = "IOData"
    /\ pc = "data"
    /\ lines = <<>>
    /\ label_patterns = [isNone |-> TRUE, list |-> <<>>]
    /\ pos = 0
    /\ fchk = EmptyDict
    /\ hdr = 0
    /\ cur = NoArray
    /\ exc = NoExc
    /\ result = EmptyDict
    /\ ipoint = 0
    /\ istep = 0
    /\ frames = <<>>
    /\ call = NoCall
    /\ ret = <<>>

NextData == SetAttribute \/ GetAttribute \/ DeleteAttribute

SpecData == InitData /\ [][NextData]_vars


\* ------------------------------------------------------------------------
\* Properties of the field reader and of _load_fchk_low (under Spec)
\* ------------------------------------------------------------------------

\* the label is asked for: no patterns were given, or it matches one
AskedFor(label, pats) ==
    pats.isNone
    \/ \E pat \in {pats.list[i] : i \in DOMAIN pats.list} : fnmatch(label, pat)

FieldLabel(line) == strip(Slice(line, 0, LabelWidth))

FieldWords(line) == split(SliceFrom(line, LabelWidth))

\* the line has a type code I or R and a label that is asked for
IsWantedField(line, pats) ==
    /\ FieldWords(line) # <<>>
    /\ IsTypeCode(FieldWords(line)[1])
    /\ AskedFor(FieldLabel(line), pats)

\* the line is the header of an integer or real array: "I|R N= n", n >= 0
IsArrayHeader(line) ==
    LET w == FieldWords(line)
    IN  /\ Len(w) = 3
        /\ IsTypeCode(w[1])
        /\ w[2] = "N="
        /\ py_int(w[3]).ok
        /\ py_int(w[3]).val >= 0

ArrayLength(line) == py_int(FieldWords(line)[3]).val

\* the line is an integer or real scalar field
IsScalarField(line) ==
    LET w == FieldWords(line)
    IN  Len(w) = 2 /\ IsTypeCode(w[1]) /\ datatype(w[1], w[2]).ok

\* the number of the line on which the n-th value after line q lies, by
\* counting the words of the lines (the last line if there are fewer)
RECURSIVE ValuesEnd(_, _, _)
ValuesEnd(ls, q, n) ==
    IF n <= 0 \/ q >= Len(ls) THEN q
    ELSE ValuesEnd(ls, q + 1, n - Len(split(ls[q + 1])))

\* the n values of an array whose header is line q, taken by their count:
\* every line after the header holds values only, and the last of them
\* holds the n-th value as its last word
RECURSIVE TakeValues(_, _, _, _, _)
TakeValues(ls, q, code, n, acc) ==
    IF n = 0 THEN [ok |-> TRUE, end |-> q, v |-> acc]
    ELSE IF q >= Len(ls) THEN [ok |-> FALSE, end |-> q, v |-> acc]
    ELSE LET ws == split(ls[q + 1])
             xs == [i \in 1..Len(ws) |-> datatype(code, ws[i])]
         IN  IF ws = <<>> \/ Len(ws) > n \/ \E i \in 1..Len(ws) : ~xs[i].ok
             THEN [ok |-> FALSE, end |-> q + 1, v |-> acc]
             ELSE TakeValues(ls, q + 1, code, n - Len(ws),
                             acc \o [i \in 1..Len(ws) |-> xs[i].val])

\* the fields of the lines after line p, delimited by their declared
\* lengths alone: ok is FALSE if some line is not where a field header or
\* a value is due, d holds the fields that are asked for
RECURSIVE ByLength(_, _, _, _)
ByLength(ls, p, pats, d) ==
    IF p >= Len(ls) THEN [ok |-> TRUE, d |-> d]
    ELSE LET line  == ls[p + 1]
             label == FieldLabel(line)
             w     == FieldWords(line)
             t     == TakeValues(ls, p + 1, w[1], ArrayLength(line), <<>>)
         IN  IF IsScalarField(line)
             THEN ByLength(ls, p + 1, pats,
                           IF AskedFor(label, pats)
                           THEN Put(d, label,
                                    Scalar(w[1], datatype(w[1], w[2]).val))
                           ELSE d)
             ELSE IF IsArrayHeader(line)
             THEN IF ~t.ok THEN [ok |-> FALSE, d |-> d]
                  ELSE ByLength(ls, t.end, pats,
                                IF AskedFor(label, pats)
                                THEN Put(d, label, Array(w[1], t.v))
                                ELSE d)
             ELSE [ok |-> FALSE, d |-> d]

\* a source of two header lines followed by integer and real fields, each
\* array with exactly its declared number of values
WellFormed(ls) ==
    /\ Len(ls) >= 2
    /\ Len(split(ls[2])) \in {2, 3}
    /\ ByLength(ls, 2, [isNone |-> TRUE, list |-> <<>>], EmptyDict).ok

HeaderKeys == {"title", "command", "lot", "obasis_name"}

SameValue(a, b) == a.kind = b.kind /\ a.dtype = b.dtype /\ a.v = b.v

\* C1 (as claimed): the continuation lines of an array field that is not
\* asked for are passed by the count of its values and are never examined
\* as field headers: the line examined as a header in the last pass never
\* lies among the lines that hold the values of an earlier such array.
C1_SkippedByCount ==
    WellFormed(lines) =>
        \A h \in 3..Len(lines) :
            ( /\ h < hdr
              /\ IsArrayHeader(lines[h])
              /\ ~AskedFor(FieldLabel(lines[h]), label_patterns) )
            => hdr > ValuesEnd(lines, h, ArrayLength(lines[h]))

\* C1 (amended): on a well-formed source _load_fchk_low returns, and the
\* fields it returns are exactly the fields asked for, each with the label
\* and the complete value that the declared lengths delimit (the lines of
\* the fields not asked for are passed one by one).
C1_FieldsAligned ==
    (pc \in {"returned", "raised"} /\ WellFormed(lines)) =>
        LET ref == ByLength(lines, 2, label_patterns, EmptyDict).d
        IN  /\ pc = "returned"
            /\ DOMAIN fchk \ HeaderKeys = DOMAIN ref
            /\ \A k \in DOMAIN ref : SameValue(fchk[k], ref[k])

\* a well-formed source was read in which an array of seven values, not
\* asked for and spread over two lines, comes before a field that is asked
\* for and that has been returned
C1_Witness ==
    /\ pc = "returned"
    /\ ~label_patterns.isNone
    /\ WellFormed(lines)
    /\ \E h \in 3..Len(lines) :
           /\ IsArrayHeader(lines[h])
           /\ ArrayLength(lines[h]) = 7
           /\ ~AskedFor(FieldLabel(lines[h]), label_patterns)
           /\ ValuesEnd(lines, h, 7) = h + 2
           /\ \E g \in (h + 3)..Len(lines) :
                  /\ IsArrayHeader(lines[g])
                  /\ IsWantedField(lines[g], label_patterns)
                  /\ FieldLabel(lines[g]) \in DOMAIN fchk
                  /\ Len(fchk[FieldLabel(lines[g])].v) = ArrayLength(lines[g])

\* C2 (as claimed): _load_fchk_low never returns when the source ended
\* before the declared number of values of an array that is asked for was
\* read.
C2_TruncatedArrayFails ==
    pc = "returned" => cur.counter >= cur.length

\* C4 (as claimed): a line with a type code I or R, a label that is asked
\* for, and a number of words after column 43 other than 2 and 3, once
\* examined as a field header, makes the read fail with the error of
\* lit.error.
C4_WordCountFails ==
    ( /\ hdr >= 3
      /\ IsWantedField(lines[hdr], label_patterns)
      /\ Len(FieldWords(lines[hdr])) \notin {2, 3} )
    => (pc = "raised" /\ exc.kind = lit_error("").kind)

\* C5: when _load_fchk_low returns, no unread line remains in the source,
\* whatever the patterns and whether or not they had all been matched.
C5_SourceDrained ==
    pc = "returned" => pos = Len(lines)

\* _load_fchk_low returned, every pattern had matched a field, and after
\* the last field that is asked for came an array that is not
C5_Witness ==
    /\ pc = "returned"
    /\ pos = Len(lines)
    /\ ~label_patterns.isNone
    /\ \A i \in 1..Len(label_patterns.list) :
           \E k \in DOMAIN fchk \ HeaderKeys :
               fnmatch(k, label_patterns.list[i])
    /\ Len(lines) >= 5
    /\ IsArrayHeader(lines[Len(lines) - 2])
    /\ ~AskedFor(FieldLabel(lines[Len(lines) - 2]), label_patterns)
    /\ \A h \in (Len(lines) - 2)..Len(lines) :
           ~IsWantedField(lines[h], label_patterns)

\* ------------------------------------------------------------------------
\* Properties of load_one (under SpecLoad)
\* ------------------------------------------------------------------------

\* load_one has read the two electron counts
CountsRead ==
    /\ "Number of alpha electrons" \in DOMAIN fchk
    /\ "Number of beta electrons" \in DOMAIN fchk

DeclaredAlpha == fchk["Number of alpha electrons"].v

DeclaredBeta == fchk["Number of beta electrons"].v

\* load_one is past the checks of the electron counts
CountsAccepted ==
    entry = "load_one" /\ pc \in {"MO", "E", "returned"}

\* load_one raised one of the two errors of the checks of the counts
CountsRejected ==
    /\ entry = "load_one"
    /\ pc = "raised"
    /\ exc.msg \in {"The number of electrons is not positive.",
                    "n_alpha < n_beta is not valid!"}

Returned == entry = "load_one" /\ pc = "returned"

\* C3 (as claimed): load_one does not fail on a file whose second line has
\* exactly two words.
C3_TwoWordsAccepted ==
    (entry = "load_one" /\ Len(lines) >= 2 /\ Len(split(lines[2])) = 2)
    => pc # "raised"

\* C6: load_one gets past the checks of the electron counts only with
\* alpha >= 0, beta >= 0, alpha + beta > 0 and alpha >= beta, and raises
\* their errors only otherwise; (-1,0), (0,0) and (2,3) are rejected and
\* (3,2) is accepted.
C6_ElectronCounts ==
    LET a   == DeclaredAlpha
        b   == DeclaredBeta
        bad == a < 0 \/ b < 0 \/ a + b <= 0 \/ a < b
    IN  /\ CountsAccepted => ~bad
        /\ CountsRejected => bad
        /\ (CountsAccepted \/ CountsRejected) =>
               /\ <<a, b>> \in {<<-1, 0>>, <<0, 0>>, <<2, 3>>} => CountsRejected
               /\ <<a, b>> = <<3, 2>> => CountsAccepted

\* the counts (3,2) have passed the checks
C6_Witness ==
    CountsAccepted /\ pc = "MO" /\ DeclaredAlpha = 3 /\ DeclaredBeta = 2

\* C7 (as claimed): the error raised for counts that are negative or not
\* positive in total is of the kind of the error raised for alpha < beta,
\* and not of the kind of the errors of lit.error raised for a malformed
\* header line or an unparsable number.
C7_OneKindOfValidationError ==
    CountsRejected =>
        /\ exc.kind = check_electrons(1, 2).kind
        /\ exc.kind # lit_error("").kind

\* the occupations of the orbitals that load_one returns
Occupations == result["mo"].occs

\* C8: the occupations of a restricted load are as many as there are
\* independent functions; the first beta of them are 2, those from beta up
\* to alpha are 1, the others are 0.
C8_RestrictedOccupations ==
    (Returned /\ "Beta Orbital Energies" \notin DOMAIN fchk) =>
        /\ result["mo"].kind = "restricted"
        /\ Len(Occupations) = nbasis_indep(fchk)
        /\ \A i \in 1..Len(Occupations) :
               Occupations[i] = IF i <= DeclaredBeta THEN Real(2, 0)
                                ELSE IF i <= DeclaredAlpha THEN Real(1, 0)
                                ELSE Real(0, 0)

\* a restricted load with alpha = 3, beta = 2 and three orbitals returned
\* the occupations [2, 2, 1]
C8_Witness ==
    /\ Returned
    /\ "Beta Orbital Energies" \notin DOMAIN fchk
    /\ DeclaredAlpha = 3
    /\ DeclaredBeta = 2
    /\ nbasis_indep(fchk) = 3
    /\ Occupations = <<Real(2, 0), Real(2, 0), Real(1, 0)>>

\* the sum of occupations that are whole numbers
RECURSIVE OccupationSum(_)
OccupationSum(occs) ==
    IF occs = <<>> THEN 0 ELSE Head(occs).m + OccupationSum(Tail(occs))

\* C9 (as claimed): in every record that load_one returns the occupations
\* sum to alpha + beta.
C9_OccupationsSum ==
    Returned =>
        /\ \A i \in 1..Len(Occupations) : Occupations[i].e = 0
        /\ OccupationSum(Occupations) = DeclaredAlpha + DeclaredBeta

\* the keys of the density matrices of the record, and the keys of the
\* density fields that were read
DensityKeys ==
    IF "one_rdms" \in DOMAIN result THEN DOMAIN result["one_rdms"] ELSE {}

DensityKeysRead ==
    {k \in {"scf", "scf_spin", "post_scf", "post_scf_spin"} :
        \E i \in 1..Len(DensityLabels) :
            /\ DensityLabels[i][2] = k
            /\ DensityLabels[i][1] \in DOMAIN fchk}

\* C10 (as claimed): when alpha and beta differ the record has no density
\* under 'scf', with restricted and with unrestricted orbitals alike, and
\* the other densities read are kept.
C10_NoScfWhenOpenShell ==
    (Returned /\ DeclaredAlpha # DeclaredBeta) =>
        DensityKeys = DensityKeysRead \ {"scf"}

\* C10 (amended): when alpha and beta differ and the orbitals are
\* restricted, a 'Total SCF Density' was read and the record has no
\* density under 'scf'; with unrestricted orbitals the record keeps it;
\* either way every other density read is kept.
C10_NoScfWhenRestrictedOpenShell ==
    (Returned /\ DeclaredAlpha # DeclaredBeta) =>
        IF result["mo"].kind = "restricted"
        THEN /\ "scf" \in DensityKeysRead
             /\ DensityKeys = DensityKeysRead \ {"scf"}
        ELSE DensityKeys = DensityKeysRead

\* a restricted load with alpha # beta read a total and a spin SCF density
\* and returned the spin density alone
C10_Witness ==
    /\ Returned
    /\ DeclaredAlpha # DeclaredBeta
    /\ result["mo"].kind = "restricted"
    /\ {"Total SCF Density", "Spin SCF Density"} \subseteq DOMAIN fchk
    /\ DensityKeys = {"scf_spin"}

\* ------------------------------------------------------------------------
\* Properties of the helpers of dump_one (under SpecDump)
\* ------------------------------------------------------------------------

\* the functions fns were called in turn and all returned
Called(fns) ==
    /\ call.fns = fns
    /\ Len(ret) = Len(fns)
    /\ \A k \in 1..Len(ret) : ret[k].exc = NoExc

\* the functions fns are called in turn and one of them raised
Raised(fns) ==
    /\ call.fns = fns
    /\ \E k \in 1..Len(ret) : ret[k].exc # NoExc

\* m is a symmetric n x n matrix with n >= 1
IsSymmetric(m) ==
    /\ m.shape[1] = m.shape[2]
    /\ m.shape[1] >= 1
    /\ \A i, j \in 0..(m.shape[1] - 1) :
           m.v[i * m.shape[1] + j + 1] = m.v[j * m.shape[1] + i + 1]

\* t has the length n (n + 1) / 2 of a triangle of n >= 1 rows
IsTriangle(t) == \E n \in 1..Len(t.v) : Len(t.v) = TriangleSize(n)

\* C11: _triangle_to_dense(_get_TriangleMat(M)) = M for every symmetric
\* matrix M of n >= 1 rows, and _get_TriangleMat(_triangle_to_dense(t)) = t
\* for every array t of n (n + 1) / 2 elements; row i of the dense matrix
\* holds the elements begin .. begin + i of t, begin advancing by i + 1.
C11_TriangleRoundTrip ==
    /\ (call.fns = <<"_get_TriangleMat", "_triangle_to_dense">>
        /\ IsSymmetric(call.arg)) =>
           /\ ~Raised(call.fns)
           /\ Len(ret) = 2 => ret[2].val = call.arg
    /\ (call.fns = <<"_triangle_to_dense", "_get_TriangleMat">>
        /\ IsTriangle(call.arg)) =>
           /\ ~Raised(call.fns)
           /\ Len(ret) >= 1 =>
                  LET n == ret[1].val.shape[1]
                  IN  /\ ret[1].val.shape = <<n, n>>
                      /\ TriangleSize(n) = Len(call.arg.v)
                      /\ \A i \in 0..(n - 1) : \A j \in 0..i :
                             ret[1].val.v[i * n + j + 1]
                                 = call.arg.v[TriangleSize(i) + j + 1]
           /\ Len(ret) = 2 => ret[2].val = call.arg

\* the symmetric matrix of three rows with the lower triangle 1.0 .. 6.0 went
\* to its triangle and back, and the triangle 1.0 .. 6.0 is what it went to
C11_Witness ==
    /\ Called(<<"_get_TriangleMat", "_triangle_to_dense">>)
    /\ call.arg = SymmetricFrom(3, Counting(6))
    /\ ret[1].val.v = Counting(6)
    /\ ret[2].val = call.arg

\* the six components in the order of the file and in the order of IOData
FileOrder == <<"xx", "yy", "zz", "xy", "xz", "yz">>

AlphabeticalOrder == <<"xx", "xy", "xz", "yy", "yz", "zz">>

\* out holds the components of inp, inp being in the order from and out in
\* the order to
Reordered(inp, from, out, to) ==
    /\ Len(out) = 6
    /\ \A k, j \in 1..6 : to[k] = from[j] => out[k] = inp[j]

\* C12 (as claimed): the index list applied when loading takes
\* [1,2,3,4,5,6], given in the order (xx,xy,xz,yy,yz,zz), to [1,4,6,2,3,5],
\* in the order (xx,yy,zz,xy,xz,yz).
C12_LoadedQuadrupole ==
    (call.fns[1] = "load_quadrupole" /\ Len(ret) >= 1
     /\ call.arg.v = Counting(6)) =>
        /\ ret[1].val.v = <<Real(1, 0), Real(4, 0), Real(6, 0),
                            Real(2, 0), Real(3, 0), Real(5, 0)>>
        /\ Reordered(call.arg.v, AlphabeticalOrder, ret[1].val.v, FileOrder)

\* C12 (amended): the index list applied when loading, [0,3,4,1,5,2], takes
\* six components given in the order (xx,yy,zz,xy,xz,yz) to the order
\* (xx,xy,xz,yy,yz,zz); it takes [1,2,3,4,5,6] to [1,4,5,2,6,3].
C12_LoadedQuadrupoleAlphabetical ==
    (call.fns[1] = "load_quadrupole" /\ Len(ret) >= 1
     /\ Len(call.arg.v) = 6) =>
        /\ ret[1].exc = NoExc
        /\ Reordered(call.arg.v, FileOrder, ret[1].val.v, AlphabeticalOrder)
        /\ call.arg.v = Counting(6) =>
               ret[1].val.v = <<Real(1, 0), Real(4, 0), Real(5, 0),
                                Real(2, 0), Real(6, 0), Real(3, 0)>>

\* [1,2,3,4,5,6] was reordered as when loading
C12_Witness ==
    /\ call.fns[1] = "load_quadrupole"
    /\ Len(ret) >= 1
    /\ call.arg.v = Counting(6)
    /\ ret[1].val.v[3] = Real(5, 0)

\* C13: for every vector q of six components, reordering as when loading
\* what _sort_quadrupole returns for q gives q, and _sort_quadrupole of q
\* reordered as when loading gives q.
C13_QuadrupoleInverse ==
    (call.fns \in { <<"_sort_quadrupole", "load_quadrupole">>,
                    <<"load_quadrupole", "_sort_quadrupole">> }
     /\ Len(call.arg.v) = 6) =>
        /\ ~Raised(call.fns)
        /\ Len(ret) = 2 => ret[2].val.v = call.arg.v

\* [1,2,3,4,5,6] went through _sort_quadrupole, which changed it, and came
\* back when reordered as when loading
C13_Witness ==
    /\ Called(<<"_sort_quadrupole", "load_quadrupole">>)
    /\ call.arg.v = Counting(6)
    /\ ret[1].val.v # call.arg.v
    /\ ret[2].val.v = call.arg.v

\* a shell of the kinds named: s, Cartesian or pure p, d, f, or SP
Representative(shell) ==
    \/ /\ Len(shell.angmoms) = 1
       /\ shell.angmoms[1] \in 0..3
       /\ shell.kinds[1] = "p" => shell.angmoms[1] >= 1
    \/ /\ shell.angmoms = <<0, 1>>
       /\ 2 * Len(shell.exponents) = CoeffsSize(shell.coeffs)

\* C14 (as claimed): for every shell of the kinds named, the load-side rules
\* applied to the code of _get_TypeShell give the angular momenta and the
\* kinds of the shell; and for every code c, _get_TypeShell of the shell
\* the load-side rules make of c is c.
C14_ShellRoundTrip ==
    /\ (call.fns = <<"_get_TypeShell", "load_shell">>
        /\ Representative(call.arg.shell)) =>
           /\ ~Raised(call.fns)
           /\ Len(ret) = 2 =>
                  /\ ret[2].val.angmoms = call.arg.shell.angmoms
                  /\ ret[2].val.kinds = call.arg.shell.kinds
    /\ call.fns = <<"load_shell", "_get_TypeShell">> =>
           /\ ~Raised(call.fns)
           /\ Len(ret) = 2 => ret[2].val = call.arg.code

\* C14 (amended): as claimed, except for a pure p shell: its code is 1, of
\* which the load-side rules make a Cartesian p shell.
C14_ShellRoundTripButPureP ==
    /\ (call.fns = <<"_get_TypeShell", "load_shell">>
        /\ Representative(call.arg.shell)) =>
           /\ ~Raised(call.fns)
           /\ Len(ret) = 2 =>
                  /\ ret[2].val.angmoms = call.arg.shell.angmoms
                  /\ ret[2].val.kinds =
                        IF call.arg.shell.angmoms = <<1>>
                        THEN <<"c">> ELSE call.arg.shell.kinds
                  /\ ret[2].val.exponents = call.arg.shell.exponents
                  /\ ret[2].val.coeffs = call.arg.shell.coeffs
    /\ call.fns = <<"load_shell", "_get_TypeShell">> =>
           /\ ~Raised(call.fns)
           /\ Len(ret) = 2 => ret[2].val = call.arg.code

\* a pure d shell got the code -2, of which the load-side rules made a pure
\* d shell
C14_Witness ==
    /\ Called(<<"_get_TypeShell", "load_shell">>)
    /\ call.arg.shell.angmoms = <<2>>
    /\ call.arg.shell.kinds = <<"p">>
    /\ ret[1].val = -2
    /\ ret[2].val.kinds = <<"p">>

\* the function fn, the first of the call, has returned
Emitted(fn) ==
    /\ call.fns[1] = fn
    /\ Len(ret) >= 1

\* the label as the format asks for it: the first 40 characters, with
\* blanks added up to 40
LabelColumns(name) == ljust(SubSeq(name, 1, Min(Len(name), 40)), 40)

\* C18 (as claimed): for every label and every value that is not None, the
\* line a scalar dumper writes has the label in exactly 40 columns (padded
\* when shorter, truncated when longer), three blanks, the type code in
\* column 44 and, for an integer, the value right-justified in the twelve
\* columns that end the line; for None nothing is written.
C18_ScalarLine ==
    \A code \in {"I", "R"} :
        Emitted(IF code = "I" THEN "_dump_integer_scalars"
                ELSE "_dump_real_scalars") =>
            IF IsNone(call.arg.val) THEN ret[1].val = <<>>
            ELSE /\ Len(ret[1].val) = 1
                 /\ LET line == ret[1].val[1]
                    IN  /\ SubSeq(line, 1, 40) = LabelColumns(call.arg.name)
                        /\ SubSeq(line, 41, 43) = "   "
                        /\ SubSeq(line, 44, 44) = code
                        /\ code = "I" =>
                               /\ Len(line) = 61
                               /\ SubSeq(line, 50, 61) =
                                      rjust(IntStr(call.arg.val.v), 12)

\* the columns of one value, and the values of a full line, of the body of
\* an array of the dtype code
Columns(code) == IF code = "I" THEN 12 ELSE 16

PerLine(code) == IF code = "I" THEN 6 ELSE 5

\* x of the dtype code as the digits written hold it: an integer in full, a
\* real in nine significant digits
AsWritten(code, x) ==
    IF code = "I" THEN x
    ELSE LET r == round9([m |-> IF x.m < 0 THEN -x.m ELSE x.m, e |-> x.e])
         IN  Real(IF x.m < 0 THEN -r.m ELSE r.m, r.e)

\* C19 (as claimed): for an array of n >= 1 values an array dumper writes a
\* header line with the count n and then ceil(n/6) lines of integers
\* (ceil(n/5) of reals), each but the last of 6 (5) values and the last of
\* 1 to 6 (5); for None and for an empty array it writes nothing; and the
\* field reader run on the lines written returns the label, when it is of at
\* most 40 characters, and the n values in their order (a real as its nine
\* significant digits written).
C19_ArrayRoundTrip ==
    \A code \in {"I", "R"} :
        Emitted(IF code = "I" THEN "_dump_integer_arrays"
                ELSE "_dump_real_arrays") =>
            LET name  == call.arg.name
                val   == call.arg.val
                out   == ret[1].val
            IN  IF IsNone(val) THEN out = <<>>
                ELSE IF Len(val.v) = 0 THEN out = <<>>
                ELSE LET n     == Len(val.v)
                         nbody == (n + PerLine(code) - 1) \div PerLine(code)
                     IN  /\ Len(out) = 1 + nbody
                         /\ split(SliceFrom(out[1], Len(out[1]) - 12))
                                = <<IntStr(n)>>
                         /\ \A k \in 2..nbody :
                                Len(out[k]) = PerLine(code) * Columns(code)
                         /\ Len(out[1 + nbody]) =
                                (n - (nbody - 1) * PerLine(code))
                                    * Columns(code)
                         /\ (Len(ret) = 2 /\ Len(name) <= 40) =>
                                /\ ret[2].kind = "return"
                                /\ ret[2].label = name
                                /\ ret[2].value.v =
                                       [k \in 1..n |->
                                           AsWritten(code, val.v[k])]

\* the tags of the levels of theory found in the level of theory lot (a str
\* or None) whatever the case of its letters
TagsFound(lot) ==
    IF IsNone(lot) THEN {}
    ELSE { t \in {"MP2", "MP3", "CC", "CI"} : Contains(upper(lot.v), t) }

\* C20 (as claimed): _dump_rdms completes without error whatever the level
\* of theory, a str or None; it writes one field for every key of the dict,
\* and the label of the field of the key post_scf (post_scf_spin) is
\* "Total <tag> Density" ("Spin <tag> Density") with a tag found in the
\* level of theory when there is one.
C20_DensityLabels ==
    Emitted("_dump_rdms") =>
        LET one_rdms == call.arg.one_rdms
            tags     == TagsFound(call.arg.lot)
            out      == ret[1].val
        IN  /\ ret[1].exc = NoExc
            /\ Len(out) = 2 * Len(one_rdms)
            /\ \A k \in 1..Len(one_rdms) :
                   LET label == strip(Slice(out[2 * k - 1], 0, 40))
                   IN  (one_rdms[k][1] \in {"post_scf", "post_scf_spin"}
                        /\ tags # {}) =>
                           \E t \in tags :
                               label = (IF one_rdms[k][1] = "post_scf"
                                        THEN "Total " ELSE "Spin ")
                                       \o t \o " Density"

\* ------------------------------------------------------------------------
\* Properties of load_many (under SpecMany)
\* ------------------------------------------------------------------------

\* load_many has read the whole file and goes on with the dict
Loaded ==
    /\ entry = "load_many"
    /\ pc \notin {"start", "loop"}
    /\ pos = Len(lines)

IsIRC == "IRC Number of geometries" \in DOMAIN fchk

HasTrajectory ==
    /\ IsIRC \/ "Optimization Number of geometries" \in DOMAIN fchk
    /\ "Atomic numbers" \in DOMAIN fchk
    /\ Len(fchk["Atomic numbers"].v) > 0

\* the declared numbers of steps, one for every point
DeclaredSteps ==
    IF IsIRC THEN fchk["IRC Number of geometries"].v
    ELSE fchk["Optimization Number of geometries"].v

\* the number of values of a field of the point i (i < 9, counted from 0);
\* none when the file has no such field
PointData(i, what) ==
    LET label == (IF IsIRC THEN "IRC" ELSE "Opt") \o " point       "
                 \o IntStr(i + 1) \o " " \o what
    IN  IF label \in DOMAIN fchk THEN fchk[label].v ELSE <<>>

\* the numbers of (energy, reaction coordinate) pairs, of geometries and of
\* gradients present for the point i
StepsPresent(i) ==
    LET natom == Len(fchk["Atomic numbers"].v)
    IN  << Len(PointData(i, "Results for each geome")) \div 2,
           Len(PointData(i, "Geometries")) \div (3 * natom),
           Len(PointData(i, "Gradient at each geome")) \div (3 * natom) >>

\* the fields of the point i hold its declared number of steps and no more
PointAgrees(i) ==
    LET n     == DeclaredSteps[i + 1]
        natom == Len(fchk["Atomic numbers"].v)
    IN  /\ Len(PointData(i, "Results for each geome")) = 2 * n
        /\ Len(PointData(i, "Geometries")) = 3 * natom * n
        /\ Len(PointData(i, "Gradient at each geome")) = 3 * natom * n

\* the declared number of steps of the point i differs from one of the
\* three numbers of steps present
Mismatch(i) ==
    \E f \in 1..3 : StepsPresent(i)[f] # DeclaredSteps[i + 1]

\* the number of steps of the points before the point i
RECURSIVE StepsBefore(_)
StepsBefore(i) ==
    IF i = 0 THEN 0 ELSE StepsBefore(i - 1) + DeclaredSteps[i]

\* C15: when the declared numbers of steps n_1..n_k of a file agree with
\* its data, load_many does not fail, the frames it has yielded are the
\* first of the n_1+...+n_k frames in the order of the points and, within a
\* point, of the steps, all of them once it has returned; the frame of the
\* step j of the point i has ipoint = i, npoint = k, istep = j and
\* nstep = n_i in extra and the j-th energy of the point, and
\* reaction_coordinate is a key of extra exactly for an IRC.
C15_FramesInOrder ==
    ( /\ Loaded
      /\ HasTrajectory
      /\ "Nuclear charges" \in DOMAIN fchk
      /\ \A i \in 0..(Len(DeclaredSteps) - 1) : PointAgrees(i) ) =>
        LET k == Len(DeclaredSteps)
        IN  /\ pc # "raised"
            /\ Len(frames) <= StepsBefore(k)
            /\ pc = "returned" => Len(frames) = StepsBefore(k)
            /\ \A i \in 0..(k - 1) :
                   \A j \in 0..(DeclaredSteps[i + 1] - 1) :
                       StepsBefore(i) + j + 1 <= Len(frames) =>
                           LET data == frames[StepsBefore(i) + j + 1]
                           IN  /\ data.extra.ipoint = i
                               /\ data.extra.npoint = k
                               /\ data.extra.istep = j
                               /\ data.extra.nstep = DeclaredSteps[i + 1]
                               /\ data.energy =
                                      PointData(i, "Results for each geome")[2 * j + 1]
                               /\ "reaction_coordinate" \in DOMAIN data.extra
                                      <=> IsIRC

\* load_many returned after the five frames of an IRC of two points of
\* three and of two steps; the fourth is the first of the second point
C15_Witness ==
    /\ Loaded
    /\ pc = "returned"
    /\ IsIRC
    /\ DeclaredSteps = <<3, 2>>
    /\ \A i \in 0..1 : PointAgrees(i)
    /\ Len(frames) = 5
    /\ frames[4].extra.ipoint = 1
    /\ frames[4].extra.istep = 0
    /\ frames[4].extra.nstep = 2
    /\ frames[4].extra.npoint = 2
    /\ "reaction_coordinate" \in DOMAIN frames[4].extra

\* C16 (as claimed): when the declared number of steps of a point differs
\* from the number of pairs, of geometries or of gradients present for it,
\* load_many yields no frame of that point and does not return: it fails.
C16_MismatchFails ==
    (Loaded /\ HasTrajectory) =>
        \A i \in 0..(Len(DeclaredSteps) - 1) :
            Mismatch(i) =>
                /\ \A f \in 1..Len(frames) : frames[f].extra.ipoint # i
                /\ pc # "returned"

\* C17 (as claimed): when load_many fails on a file with a point of which
\* the declared number of steps differs from those present, or of which a
\* field is missing, the consumer has received no frame.
C17_AllOrNothing ==
    ( /\ Loaded
      /\ HasTrajectory
      /\ pc = "raised"
      /\ \E i \in 0..(Len(DeclaredSteps) - 1) : Mismatch(i) ) =>
        frames = <<>>

\* ------------------------------------------------------------------------
\* Properties of the attributes of IOData (under SpecData)
\* ------------------------------------------------------------------------

\* the number of atoms of a stored or given array: its length in dimension 0
Atoms(a) == a.shape[1]

\* the last access was an assignment that would leave two attributes of
\* different lengths
BreakingSet ==
    /\ op.fn = "__set__"
    /\ \E other \in DOMAIN op.before :
           /\ other # "_" \o op.name
           /\ Atoms(op.before[other]) # Atoms(op.value)

\* C21: after any sequence of assignments, reads and deletions of the six
\* attributes of the atoms, those present have the same length in
\* dimension 0; an assignment that would break this raises TypeError and
\* leaves every attribute as it was.
C21_SameLength ==
    entry = "IOData" =>
        /\ \A a, b \in DOMAIN obj : Atoms(obj[a]) = Atoms(obj[b])
        /\ BreakingSet => (op.exc.kind = "TypeError" /\ obj = op.before)

\* atnums of two atoms was refused on an instance with the coordinates and
\* the masses of one atom, which are as before
C21_Witness ==
    /\ entry = "IOData"
    /\ BreakingSet
    /\ op.name = "atnums"
    /\ Atoms(op.value) = 2
    /\ op.exc.kind = "TypeError"
    /\ DOMAIN obj = {"_atcoords", "_atmasses"}
    /\ Atoms(obj["_atcoords"]) = 1
    /\ obj = op.before

\* the array a of integers as an array of floats
AsFloat(a) == NDArray("float", a.shape, [k \in 1..Len(a.v) |-> Real(a.v[k], 0)])

\* C22 (as claimed): as long as the caller has not assigned atcorenums, a
\* read of atcorenums returns atnums as it is then, converted to float, and
\* an assignment to atnums is refused only for what the caller assigned:
\* the value is not a vector, or its length differs from that of an
\* attribute other than atcorenums.
C22_DefaultFollowsAtnums ==
    (entry = "IOData" /\ "atcorenums" \notin assigned) =>
        /\ ( /\ op.fn = "__get__"
             /\ op.name = "atcorenums"
             /\ op.exc = NoExc
             /\ "_atnums" \in DOMAIN obj ) =>
               op.value = AsFloat(obj["_atnums"])
        /\ ( /\ op.fn = "__set__"
             /\ op.name = "atnums"
             /\ op.exc # NoExc ) =>
               \/ Len(op.value.shape) # 1
               \/ \E other \in DOMAIN op.before \ {"_atnums", "_atcorenums"} :
                      Atoms(op.before[other]) # Atoms(op.value)

\* ------------------------------------------------------------------------
\* More properties of load_one (under SpecLoad)
\* ------------------------------------------------------------------------

\* C23 (as claimed): on a file read to its end with valid electron counts,
\* alpha # beta, no 'Beta Orbital Energies' and no 'Total SCF Density',
\* load_one does not fail, and the record it returns has no density under
\* 'scf'.
C23_AbsentDensityNoError ==
    ( /\ entry = "load_one"
      /\ pc \notin {"start", "loop"}
      /\ CountsRead
      /\ DeclaredBeta >= 0
      /\ DeclaredAlpha > DeclaredBeta
      /\ "Beta Orbital Energies" \notin DOMAIN fchk
      /\ "Total SCF Density" \notin DOMAIN fchk ) =>
        /\ pc # "raised"
        /\ pc = "returned" => "scf" \notin DensityKeys

\* ------------------------------------------------------------------------
\* More properties of the helpers of dump_one (under SpecDump)
\* ------------------------------------------------------------------------

\* the columns lo..hi (counted from 1) of the matrix c, one after the other
ColumnsOf(c, lo, hi) ==
    [k \in 1..(c.shape[1] * (hi - lo + 1)) |->
        c.v[((k - 1) % c.shape[1]) * c.shape[2] + lo + ((k - 1) \div c.shape[1])]]

\* C24 (as claimed): of a matrix of coefficients that is not square the
\* alpha block is the first norba columns and the beta block the columns
\* after them, for every number of basis functions, norba and norbb; of a
\* square matrix the one block is all the columns.
C24_CoefficientBlocks ==
    (Emitted("_split_and_get_coefficients") /\ ~IsNone(call.arg.coeffs)) =>
        LET coeffs == call.arg.coeffs
            norba  == call.arg.norba
            ncol   == coeffs.shape[2]
        IN  IF coeffs.shape[1] # ncol
            THEN /\ ret[1].val.alphaCoeffs.v = ColumnsOf(coeffs, 1, norba)
                 /\ ret[1].val.betaCoeffs.v = ColumnsOf(coeffs, norba + 1, ncol)
            ELSE ret[1].val.alphaCoeffs.v = ColumnsOf(coeffs, 1, ncol)


\* the codes of the shells given to _dump_basisInfo
ShellCodes ==
    [i \in 1..Len(call.arg.shells) |-> _get_TypeShell(call.arg.shells[i]).val]

\* the line of the integer n under the label name is among those written
Written(name, n) ==
    \E k \in 1..Len(ret[1].val) :
        ret[1].val[k] = LabelColumns(name) \o "   I     " \o rjust(IntStr(n), 12)

\* C25 (as claimed): of the lines _dump_basisInfo writes, 'Pure/Cartesian d
\* shells' holds the number of shells of code -2, 'Pure/Cartesian f
\* shells' the number of shells of code -3, 'Highest angular momentum' the
\* largest absolute value of a code and 'Largest degree of contraction'
\* the largest number of primitives of a shell.
C25_BasisCounts ==
    (Emitted("_dump_basisInfo") /\ ret[1].exc = NoExc) =>
        LET shells == call.arg.shells
            n == Len(shells)
            with(c) == Cardinality({i \in 1..n : ShellCodes[i] = c})
        IN  /\ Written("Pure/Cartesian d shells", with(-2))
            /\ Written("Pure/Cartesian f shells", with(-3))
            /\ \E i \in 1..n :
                  /\ Written("Highest angular momentum",
                             IF ShellCodes[i] < 0 THEN -ShellCodes[i]
                             ELSE ShellCodes[i])
                  /\ \A j \in 1..n : /\ ShellCodes[j] <= ShellCodes[i] \/ ShellCodes[i] < 0
                                     /\ -ShellCodes[j] <= ShellCodes[i] \/ ShellCodes[i] < 0
                                     /\ ShellCodes[j] <= -ShellCodes[i] \/ ShellCodes[i] >= 0
                                     /\ -ShellCodes[j] <= -ShellCodes[i] \/ ShellCodes[i] >= 0
            /\ \E i \in 1..n :
                  /\ Written("Largest degree of contraction", Len(shells[i].exponents))
                  /\ \A j \in 1..n : Len(shells[j].exponents) <= Len(shells[i].exponents)


\* ------------------------------------------------------------------------
\* dump_one, then load_one (under SpecLoad)
\* ------------------------------------------------------------------------

\* C26 (as claimed): for every run type load_one can produce (energy, opt,
\* scan, freq), the record load_one returns for the file dump_one writes
\* of a record with that run type has the same run type.
C26_RunTypeRoundTrip ==
    \A rt \in RunTypes :
        (Returned /\ lines = Dumped(Str(rt))) =>
            /\ "run_type" \in DOMAIN result
            /\ result["run_type"] = Str(rt)

====
